---------------------------- MODULE Spec2Model ----------------------------
(***************************************************************************)
(* A model of the O.O project-management client (StudioPixelpoule/Oproject) *)
(* and of the backend tables and storage bucket it drives.                  *)
(*                                                                          *)
(* Text is modelled as sequences of one-character strings, so that the      *)
(* regular expressions and string operations of the source are computed     *)
(* character by character.                                                  *)
(***************************************************************************)
EXTENDS Integers, Sequences, FiniteSets, TLC

VARIABLES
  \* ---- the backend: tables, storage bucket, row ids
  projects,       \* ids of the rows of table projects
  tasks,          \* rows of table tasks
  notes,          \* rows of table notes
  documentation,  \* rows of table documentation
  environments,   \* rows of table environments
  dependencies,   \* rows of table dependencies
  versions,       \* rows of table versions
  bucket,         \* paths of the blobs in storage bucket project_versions
  nextId,         \* the next row id the backend hands out
  \* ---- the ProjectDetails page
  projectId,      \* the project the page and its sections show
  toast,          \* the last notification shown
  projectDelLast, \* the deleteProject call that ended last, or NoCall
  \* ---- NotesSection, DocumentationSection
  noteView,       \* useState notes: the rows displayed
  docView,        \* useState docs: the rows displayed
  \* ---- TasksSection
  taskView,       \* useState tasks: the rows displayed
  taskCalls,      \* updateTaskStatus calls in flight
  taskTrail,      \* per task, the statuses persisted by advances made one after the other
  \* ---- VersionsSection
  versionView,    \* useState versions: the rows displayed
  uploading,      \* useState uploading
  versionUpload,  \* the onSubmit call in flight, or NoCall
  versionDels,    \* deleteVersion calls in flight
  versionDelLast, \* the deleteVersion call that ended last, or NoCall
  \* ---- DependenciesSection (and its copy in ProjectConfigDialog.tsx)
  depView,        \* useState dependencies: the rows displayed, with their annotations
  syncing,        \* useState syncing
  depSync,        \* the syncWithGitHub call in flight, or NoCall
  depSyncLast,    \* the syncWithGitHub call that ended last, or NoCall
  checkingUpdates,\* useState checkingUpdates
  depCheck,       \* the checkForUpdates call in flight, or NoCall
  depCheckLast,   \* the checkForUpdates call that ended last, until the next one starts
  \* ---- EnvironmentsSection
  envView,        \* useState environments: the rows displayed
  envSyncing,     \* useState syncing
  envSync,        \* the syncWithGitHub call in flight, or NoCall
  envSyncLast,    \* the syncWithGitHub call that ended last, or NoCall
  \* ---- parseEnvFile (EnvironmentsSection.tsx) applied to a text
  envContent,     \* the .env text handed to parseEnvFile
  envVars,        \* the parsed variables, as the ordered entries of the JS object
  envReparsed,    \* the entries parsed from the KEY=VALUE serialisation of envVars
  envStage,       \* "input" | "parsed" | "reparsed"
  \* ---- GitHub URL matching (EnvironmentsSection.tsx, ProjectConfigDialog.tsx)
  urlParts,       \* the pieces the github_url was written from
  urlEnvResult,   \* result of EnvironmentsSection's githubUrlPattern
  urlCfgResult,   \* result of ProjectConfigDialog's match
  urlStage,       \* "input" | "env" | "cfg" | "none"
  \* ---- lib/github.ts, lib/api-config.ts, lib/openai.ts
  libCall,        \* the library call that ended last, with what it was given, or NoCall
  \* ---- ProjectConfigDialog.tsx
  stackForm,      \* the form's github_url and stack, loadingStack, githubError
  detections,     \* the detectStackFromGitHub calls in flight, in the order they began
  \* ---- the requests of the forms
  insertSent      \* the insert or update sent last: its table and what it carries, or NoCall

backendVars == <<projects, tasks, notes, documentation, environments,
                 dependencies, versions, bucket, nextId>>
pageVars == <<projectId, toast>>
detailVars == <<projectDelLast, noteView, docView>>
taskVars == <<taskView, taskCalls, taskTrail>>
versionVars == <<versionView, uploading, versionUpload, versionDels, versionDelLast>>
depVars == <<depView, syncing, depSync, depSyncLast, checkingUpdates, depCheck,
             depCheckLast>>
envSyncVars == <<envView, envSyncing, envSync, envSyncLast>>
envParseVars == <<envContent, envVars, envReparsed, envStage>>
urlVars == <<urlParts, urlEnvResult, urlCfgResult, urlStage>>
dialogVars == <<stackForm, detections>>
libVars == <<libCall, dialogVars>>
requestVars == <<insertSent>>

vars == <<backendVars, pageVars, detailVars, taskVars, versionVars, depVars, envSyncVars,
          envParseVars, urlVars, libVars, requestVars>>

\* The client state outside one section.
exceptTasks == <<detailVars, versionVars, depVars, envSyncVars, envParseVars, urlVars,
    libVars>>
exceptVersions == <<detailVars, taskVars, depVars, envSyncVars, envParseVars, urlVars,
    libVars>>
exceptDeps == <<detailVars, taskVars, versionVars, envSyncVars, envParseVars, urlVars,
    libVars>>
exceptEnvSync == <<detailVars, taskVars, versionVars, depVars, envParseVars, urlVars,
    libVars>>
sectionVars == <<detailVars, taskVars, versionVars, depVars, envSyncVars, libVars,
                 requestVars>>

-----------------------------------------------------------------------------
(* Text helpers                                                             *)

\* All texts over alphabet S of length at most n.
TextsUpTo(S, n) == UNION {[1..k -> S] : k \in 0..n}

Drop(s, n) == SubSeq(s, n + 1, Len(s))

Take(s, n) == SubSeq(s, 1, n)

StartsWith(s, p) == Len(s) >= Len(p) /\ Take(s, Len(p)) = p

\* Index of the first occurrence of character c in s, 0 when there is none.
IndexOf(s, c) ==
  IF \E i \in 1..Len(s) : s[i] = c
  THEN CHOOSE i \in 1..Len(s) : s[i] = c /\ \A j \in 1..(i - 1) : s[j] # c
  ELSE 0

\* The characters String.prototype.trim removes.
IsSpace(c) == c \in {" ", "\t", "\r", "\n"}

RECURSIVE TrimStart(_)
TrimStart(s) ==
  IF s # <<>> /\ IsSpace(Head(s)) THEN TrimStart(Tail(s)) ELSE s

RECURSIVE TrimEnd(_)
TrimEnd(s) ==
  IF s # <<>> /\ IsSpace(s[Len(s)]) THEN TrimEnd(Take(s, Len(s) - 1)) ELSE s

Trim(s) == TrimEnd(TrimStart(s))

\* content.split('\n')
RECURSIVE SplitLines(_)
SplitLines(s) ==
  LET i == IndexOf(s, "\n")
  IN  IF i = 0 THEN <<s>> ELSE <<Take(s, i - 1)>> \o SplitLines(Drop(s, i))

IsQuote(c) == c \in {"\"", "'"}

-----------------------------------------------------------------------------
(* parseEnvFile, EnvironmentsSection.tsx lines 161-174                      *)

\* The characters the texts handed to parseEnvFile are drawn from.
EnvAlphabet == {"K", "=", " ", "\"", "#", "\n"}

\* Longest text handed to parseEnvFile.
MaxEnvLen == 5

\* Characters the regular expression's '.' does not match.
IsLineTerminator(c) == c \in {"\n", "\r"}

\* vars[key] = value, on a JS object kept as its entries in insertion order.
SetEntry(entries, k, v) ==
  IF \E i \in 1..Len(entries) : entries[i][1] = k
  THEN [i \in 1..Len(entries) |-> IF entries[i][1] = k THEN <<k, v>> ELSE entries[i]]
  ELSE Append(entries, <<k, v>>)

\* value.replace(/["']/g, '')
StripQuotes(v) == SelectSeq(v, LAMBDA c : ~IsQuote(c))

\* One iteration of the forEach over the lines: trim, skip blank and '#'
\* lines, match /^([^=]+)=(.*)$/, store the trimmed key and unquoted value.
ParseEnvLine(entries, rawLine) ==
  LET line == Trim(rawLine)
      eq == IndexOf(line, "=")
      key == Take(line, eq - 1)
      value == Drop(line, eq)
  IN  IF line = <<>> \/ Head(line) = "#" THEN entries
      ELSE IF eq < 2 \/ \E i \in 1..Len(value) : IsLineTerminator(value[i])
           THEN entries
           ELSE SetEntry(entries, Trim(key), StripQuotes(Trim(value)))

RECURSIVE ParseEnvLines(_, _)
ParseEnvLines(entries, lines) ==
  IF lines = <<>> THEN entries
  ELSE ParseEnvLines(ParseEnvLine(entries, Head(lines)), Tail(lines))

parseEnvFile(content) == ParseEnvLines(<<>>, SplitLines(content))

\* The key/value mapping an entry list stands for.
AsMap(entries) == {entries[i] : i \in 1..Len(entries)}

\* The text KEY=VALUE, one line per entry.
RECURSIVE SerializeEnv(_)
SerializeEnv(entries) ==
  IF entries = <<>> THEN <<>>
  ELSE LET e == Head(entries)
           line == e[1] \o <<"=">> \o e[2]
       IN  IF Len(entries) = 1 THEN line
           ELSE line \o <<"\n">> \o SerializeEnv(Tail(entries))

EnvParseInit ==
  /\ envContent \in TextsUpTo(EnvAlphabet, MaxEnvLen)
  /\ envVars = <<>>
  /\ envReparsed = <<>>
  /\ envStage = "input"

EnvParseIdle ==
  /\ envContent = <<>>
  /\ envVars = <<>>
  /\ envReparsed = <<>>
  /\ envStage = "input"

\* parseEnvFile(file.content)
ParseEnvFileStep ==
  /\ envStage = "input"
  /\ envVars' = parseEnvFile(envContent)
  /\ envStage' = "parsed"
  /\ UNCHANGED <<envContent, envReparsed>>
  /\ UNCHANGED <<backendVars, pageVars, sectionVars, urlVars>>

\* The parsed set written out as KEY=VALUE lines and parsed again.
ReparseEnvStep ==
  /\ envStage = "parsed"
  /\ envReparsed' = parseEnvFile(SerializeEnv(envVars))
  /\ envStage' = "reparsed"
  /\ UNCHANGED <<envContent, envVars>>
  /\ UNCHANGED <<backendVars, pageVars, sectionVars, urlVars>>

-----------------------------------------------------------------------------
(* GitHub URL matching: EnvironmentsSection.tsx lines 102-119 and           *)
(* ProjectConfigDialog.tsx lines 570-577                                    *)

TxtHttps == <<"h", "t", "t", "p", "s", ":", "/", "/">>
TxtHttp == <<"h", "t", "t", "p", ":", "/", "/">>
TxtGitAt == <<"g", "i", "t", "@">>
TxtWww == <<"w", "w", "w", ".">>
TxtGithubCom == <<"g", "i", "t", "h", "u", "b", ".", "c", "o", "m">>
TxtGitlabCom == <<"g", "i", "t", "l", "a", "b", ".", "c", "o", "m">>
TxtDotGit == <<".", "g", "i", "t">>
TxtSlash == <<"/">>
TxtColon == <<":">>
TxtAcme == <<"a", "c", "m", "e">>
TxtWidget == <<"w", "i", "d", "g", "e", "t">>
TxtOrg == <<"o", "r", "g">>
TxtLib == <<"l", "i", "b">>
TxtNotAUrl == <<"n", "o", "t", "-", "a", "-", "u", "r", "l">>

\* The pieces a stored github_url is written from.
UrlPartsSet ==
  [ scheme : {TxtHttps, TxtHttp, TxtGitAt, <<>>},
    www    : {TxtWww, <<>>},
    host   : {TxtGithubCom, TxtGitlabCom, TxtNotAUrl, <<>>},
    sep1   : {TxtSlash, TxtColon, <<>>},
    owner  : {TxtAcme, TxtOrg, <<>>},
    sep2   : {TxtSlash, <<>>},
    repo   : {TxtWidget, TxtLib, <<>>},
    suffix : {<<>>, TxtDotGit, TxtSlash} ]

UrlText(p) ==
  p.scheme \o p.www \o p.host \o p.sep1 \o p.owner \o p.sep2 \o p.repo \o p.suffix

MatchOk(o, r) == [ok |-> TRUE, owner |-> o, repo |-> r, error |-> ""]

MatchFail(msg) == [ok |-> FALSE, owner |-> <<>>, repo |-> <<>>, error |-> msg]

\* Longest prefix of s whose characters are all outside the set stop.
RECURSIVE RunOutside(_, _)
RunOutside(s, stop) ==
  IF s = <<>> \/ Head(s) \in stop THEN <<>>
  ELSE <<Head(s)>> \o RunOutside(Tail(s), stop)

\* ([^/]+)/([^/.]+)(?:\.git)?$ on the text after "github.com/".
EnvPatternTail(s) ==
  LET owner == RunOutside(s, {"/"})
      afterOwner == Drop(s, Len(owner))
      repo == RunOutside(Drop(afterOwner, 1), {"/", "."})
      rest == Drop(afterOwner, 1 + Len(repo))
  IN  IF /\ owner # <<>>
         /\ StartsWith(afterOwner, TxtSlash)
         /\ repo # <<>>
         /\ rest \in {<<>>, TxtDotGit}
      THEN MatchOk(owner, repo)
      ELSE MatchFail("URL GitHub invalide. Format attendu: https://github.com/owner/repo")

\* project.github_url.match(githubUrlPattern) with
\* /^https?:\/\/(?:www\.)?github\.com\/([^\/]+)\/([^\/\.]+)(?:\.git)?$/
\* and the checks on owner and repo that follow it.
EnvGithubUrlMatch(url) ==
  LET schemeLen == IF StartsWith(url, TxtHttps) THEN Len(TxtHttps)
                   ELSE IF StartsWith(url, TxtHttp) THEN Len(TxtHttp)
                   ELSE 0
      s1 == Drop(url, schemeLen)
      s2 == IF StartsWith(s1, TxtWww) THEN Drop(s1, Len(TxtWww)) ELSE s1
      hostSlash == TxtGithubCom \o TxtSlash
  IN  IF schemeLen > 0 /\ StartsWith(s2, hostSlash)
      THEN EnvPatternTail(Drop(s2, Len(hostSlash)))
      ELSE MatchFail("URL GitHub invalide. Format attendu: https://github.com/owner/repo")

\* Whether /github\.com\/([^/]+)\/([^/]+)/ matches starting at index i.
CfgMatchesAt(url, i) ==
  LET s == Drop(url, i - 1)
      hostSlash == TxtGithubCom \o TxtSlash
      t == Drop(s, Len(hostSlash))
      owner == RunOutside(t, {"/"})
      afterOwner == Drop(t, Len(owner))
      repo == RunOutside(Drop(afterOwner, 1), {"/"})
  IN  /\ StartsWith(s, hostSlash)
      /\ owner # <<>>
      /\ StartsWith(afterOwner, TxtSlash)
      /\ repo # <<>>

\* project.github_url.match(/github\.com\/([^/]+)\/([^/]+)/): the leftmost match.
CfgGithubUrlMatch(url) ==
  LET starts == {i \in 1..Len(url) : CfgMatchesAt(url, i)}
  IN  IF starts = {} THEN MatchFail("URL GitHub invalide")
      ELSE LET i == CHOOSE k \in starts : \A j \in starts : k <= j
               t == Drop(url, i - 1 + Len(TxtGithubCom) + 1)
               owner == RunOutside(t, {"/"})
               repo == RunOutside(Drop(t, Len(owner) + 1), {"/"})
           IN  MatchOk(owner, repo)

UrlInit ==
  /\ urlParts \in UrlPartsSet
  /\ urlEnvResult = MatchFail("")
  /\ urlCfgResult = MatchFail("")
  /\ urlStage = "input"

UrlIdle ==
  /\ urlParts = [scheme |-> <<>>, www |-> <<>>, host |-> <<>>, sep1 |-> <<>>,
                 owner |-> <<>>, sep2 |-> <<>>, repo |-> <<>>, suffix |-> <<>>]
  /\ urlEnvResult = MatchFail("")
  /\ urlCfgResult = MatchFail("")
  /\ urlStage = "input"

\* The URL step of EnvironmentsSection's syncWithGitHub.
EnvMatchUrlStep ==
  /\ urlStage = "input"
  /\ UrlText(urlParts) # <<>>      \* an empty github_url is refused before the match
  /\ urlEnvResult' = EnvGithubUrlMatch(UrlText(urlParts))
  /\ urlStage' = "env"
  /\ UNCHANGED <<urlParts, urlCfgResult>>
  /\ UNCHANGED <<backendVars, pageVars, sectionVars, envParseVars>>

\* The URL step of ProjectConfigDialog's syncWithGitHub.
CfgMatchUrlStep ==
  /\ urlStage = "input"
  /\ UrlText(urlParts) # <<>>
  /\ urlCfgResult' = CfgGithubUrlMatch(UrlText(urlParts))
  /\ urlStage' = "cfg"
  /\ UNCHANGED <<urlParts, urlEnvResult>>
  /\ UNCHANGED <<backendVars, pageVars, sectionVars, envParseVars>>

\* if (!project?.github_url): the sync stops with 'URL GitHub non configurée'.
NoUrlStep ==
  /\ urlStage = "input"
  /\ UrlText(urlParts) = <<>>
  /\ urlEnvResult' = MatchFail("URL GitHub non configurée")
  /\ urlCfgResult' = MatchFail("URL GitHub non configurée")
  /\ urlStage' = "none"
  /\ UNCHANGED urlParts
  /\ UNCHANGED <<backendVars, pageVars, sectionVars, envParseVars>>

-----------------------------------------------------------------------------
(* The backend and the ProjectDetails page                                  *)

ProjectIds == {"p1", "p2"}

CurrentUser == "u1"

\* What supabase.auth.getUser() may give: the signed-in user, or none.
NoUser == "none"

NoProject == "none"

NoCall == [pc |-> "none"]

\* Row ids handed out over a run.
MaxId == 2

\* Tasks created over a run.
MaxTasks == 1

\* Versions stored at a time.
MaxVersions == 1

\* Calls of one handler that may be in flight together.
MaxInFlight == 2

Toast(kind, msg) == [kind |-> kind, msg |-> msg]

NoToast == Toast("none", "")

\* Rows of a table that .eq('project_id', p) selects.
RowsOf(table, p) == {r \in table : r.project_id = p}

\* A row insert is accepted when its project exists (the foreign key) and its
\* user_id is the signed-in user (the row-level policy WITH CHECK).
InsertAccepted(row) == row.project_id \in projects /\ row.user_id = CurrentUser

\* .from(table).insert([row]) as it leaves the client.
InsertOf(table, row) ==
  [pc |-> "sent", table |-> table, user_id |-> row.user_id, fields |-> DOMAIN row \ {"id"}]

\* .from(table).update(data).eq('id', id) as it leaves the client.
UpdateOf(table, id, fields) ==
  [pc |-> "updateSent", table |-> table, id |-> id, fields |-> fields]

\* s without its i-th element.
RemoveAt(s, i) == Take(s, i - 1) \o Drop(s, i)

BackendInit ==
  /\ projects = ProjectIds
  /\ tasks = {} /\ notes = {} /\ documentation = {}
  /\ environments = {} /\ dependencies = {} /\ versions = {}
  /\ bucket = {}
  /\ nextId = 1

PageInit ==
  /\ projectId \in ProjectIds
  /\ toast = NoToast
  /\ projectDelLast = NoCall
  /\ noteView = {}
  /\ docView = {}

\* The client state outside the page's own: every section but notes and
\* documentation.
exceptDetails == <<taskVars, versionVars, depVars, envSyncVars, envParseVars, urlVars,
                   libVars>>

\* NotesSection.tsx, onSubmit with no note being edited: insert the note for
\* the page's project, then fetchNotes().
NoteOnSubmit ==
  /\ projectId # NoProject
  /\ nextId <= MaxId
  /\ \E user \in {CurrentUser, NoUser}, fetched \in BOOLEAN :
       LET row == [id |-> nextId, project_id |-> projectId, user_id |-> user]
       IN  /\ insertSent' = InsertOf("notes", row)
           /\ IF InsertAccepted(row)
              THEN /\ notes' = notes \cup {row}
                   /\ nextId' = nextId + 1
                   /\ IF fetched
                      THEN /\ noteView' = RowsOf(notes', projectId)
                           /\ toast' = Toast("success", "Note ajoutée")
                      ELSE /\ noteView' = noteView
                           /\ toast' = Toast("error", "Erreur lors du chargement des notes")
              ELSE /\ toast' = Toast("error", "Erreur lors de l'enregistrement de la note")
                   /\ UNCHANGED <<notes, nextId, noteView>>
  /\ UNCHANGED <<projects, tasks, documentation, environments, dependencies,
                 versions, bucket, projectId, projectDelLast, docView>>
  /\ UNCHANGED exceptDetails

\* DocumentationSection.tsx, onSubmit with no document being edited: insert
\* the document for the page's project, then fetchDocs().
DocOnSubmit ==
  /\ projectId # NoProject
  /\ nextId <= MaxId
  /\ \E user \in {CurrentUser, NoUser}, fetched \in BOOLEAN :
       LET row == [id |-> nextId, project_id |-> projectId, user_id |-> user]
       IN  /\ insertSent' = InsertOf("documentation", row)
           /\ IF InsertAccepted(row)
              THEN /\ documentation' = documentation \cup {row}
                   /\ nextId' = nextId + 1
                   /\ IF fetched
                      THEN /\ docView' = RowsOf(documentation', projectId)
                           /\ toast' = Toast("success", "Documentation ajoutée")
                      ELSE /\ docView' = docView
                           /\ toast' = Toast("error", "Erreur lors du chargement de la documentation")
              ELSE /\ toast' = Toast("error", "Erreur lors de l'enregistrement de la documentation")
                   /\ UNCHANGED <<documentation, nextId, docView>>
  /\ UNCHANGED <<projects, tasks, notes, environments, dependencies,
                 versions, bucket, projectId, projectDelLast, noteView>>
  /\ UNCHANGED exceptDetails

\* What ON DELETE CASCADE leaves of a child table when project p goes.
CascadeDelete(table, p) == table \ RowsOf(table, p)

\* deleteProject(): delete the row of table projects, then leave the page.
DeleteProject ==
  /\ projectId # NoProject
  /\ \E ok \in BOOLEAN :
       IF ok
       THEN /\ projects' = projects \ {projectId}
            /\ tasks' = CascadeDelete(tasks, projectId)
            /\ notes' = CascadeDelete(notes, projectId)
            /\ documentation' = CascadeDelete(documentation, projectId)
            /\ environments' = CascadeDelete(environments, projectId)
            /\ dependencies' = CascadeDelete(dependencies, projectId)
            /\ versions' = CascadeDelete(versions, projectId)
            /\ projectDelLast' = [pc |-> "ended", project |-> projectId, deleted |-> TRUE,
                                  blobs |-> {v.file_path : v \in RowsOf(versions, projectId)}]
            /\ toast' = Toast("success", "Projet supprimé")
            /\ projectId' = NoProject
       ELSE /\ projectDelLast' = [pc |-> "ended", project |-> projectId, deleted |-> FALSE,
                                  blobs |-> {v.file_path : v \in RowsOf(versions, projectId)}]
            /\ toast' = Toast("error", "Erreur lors de la suppression du projet")
            /\ UNCHANGED <<projects, tasks, notes, documentation, environments,
                           dependencies, versions, projectId>>
  /\ UNCHANGED <<bucket, nextId, noteView, docView>>
  /\ UNCHANGED <<exceptDetails, requestVars>>

-----------------------------------------------------------------------------
(* TasksSection.tsx                                                         *)

\* const statuses: TaskStatus[] = ['à faire', 'en cours', 'fait']
statuses == <<"à faire", "en cours", "fait">>

TaskStatuses == {statuses[i] : i \in 1..Len(statuses)}

\* statuses.indexOf(status): the 0-based index, -1 when absent.
StatusIndexOf(status) ==
  IF \E i \in 1..Len(statuses) : statuses[i] = status
  THEN (CHOOSE i \in 1..Len(statuses) : statuses[i] = status) - 1
  ELSE -1

\* A ring that leaves out the last status.
NextStatusTwoValues(status) == statuses[((StatusIndexOf(status) + 1) % 2) + 1]

\* statuses[(currentIndex + 1) % statuses.length]
NextStatus(status) ==
  statuses[((StatusIndexOf(status) + 1) % Len(statuses)) + 1]

TaskInit ==
  /\ taskView = {}
  /\ taskCalls = <<>>
  /\ taskTrail = <<>>

\* Whether the displayed row of task id shows what the backend holds and no
\* status update of that task is in flight.
TaskSettled(id) ==
  /\ \A i \in 1..Len(taskCalls) : taskCalls[i].task # id
  /\ \A v \in taskView : v.id = id => v \in tasks

\* onSubmit with no task being edited: insert the form's task for the page's
\* project, then fetchTasks().
TaskOnSubmit ==
  /\ projectId # NoProject
  /\ nextId <= MaxId
  /\ Cardinality(tasks) < MaxTasks
  /\ \E status \in TaskStatuses, user \in {CurrentUser, NoUser}, fetched \in BOOLEAN :
       LET row == [id |-> nextId, project_id |-> projectId, status |-> status,
                   user_id |-> user]
       IN  /\ insertSent' = InsertOf("tasks", row)
           /\ IF InsertAccepted(row)
              THEN /\ tasks' = tasks \cup {row}
                   /\ nextId' = nextId + 1
                   /\ taskTrail' = [i \in DOMAIN taskTrail \cup {nextId} |->
                                      IF i = nextId THEN <<status>> ELSE taskTrail[i]]
                   /\ IF fetched
                      THEN /\ taskView' = RowsOf(tasks', projectId)
                           /\ toast' = Toast("success", "Tâche ajoutée")
                      ELSE /\ taskView' = taskView
                           /\ toast' = Toast("error", "Erreur lors du chargement des tâches")
              ELSE /\ toast' = Toast("error", "Erreur lors de l'enregistrement de la tâche")
                   /\ UNCHANGED <<tasks, nextId, taskTrail, taskView>>
  /\ UNCHANGED <<projects, notes, documentation, environments, dependencies,
                 versions, bucket, projectId, taskCalls>>
  /\ UNCHANGED exceptTasks

\* The status button of a displayed task: updateTaskStatus(task.id, nextStatus)
\* is called and waits for the backend.
TaskStatusClick ==
  /\ Len(taskCalls) < MaxInFlight
  /\ \E t \in taskView :
       LET settled == TaskSettled(t.id)
           call == [pc |-> "update", project |-> projectId, task |-> t.id,
                    newStatus |-> NextStatus(t.status), inOrder |-> settled]
       IN  taskCalls' = [i \in 1..Len(taskCalls) |->
                           IF taskCalls[i].task = t.id
                           THEN [taskCalls[i] EXCEPT !.inOrder = FALSE]
                           ELSE taskCalls[i]] \o <<call>>
  /\ UNCHANGED <<backendVars, pageVars, taskView, taskTrail>>
  /\ UNCHANGED <<exceptTasks, requestVars>>

\* updateTaskStatus: the update of the task's row returns.
TaskUpdateReturn ==
  /\ \E i \in 1..Len(taskCalls), ok \in BOOLEAN :
       LET call == taskCalls[i]
       IN  /\ call.pc = "update"
           /\ IF ok
              THEN /\ tasks' = {IF r.id = call.task
                                THEN [r EXCEPT !.status = call.newStatus] ELSE r
                                : r \in tasks}
                   /\ taskCalls' = [taskCalls EXCEPT ![i].pc = "fetch"]
                   /\ taskTrail' =
                        IF \E r \in tasks : r.id = call.task
                        THEN [taskTrail EXCEPT ![call.task] =
                                IF call.inOrder /\ Len(@) <= Len(statuses)
                                THEN Append(@, call.newStatus)
                                ELSE <<call.newStatus>>]
                        ELSE taskTrail
                   /\ toast' = toast
              ELSE /\ taskCalls' = RemoveAt(taskCalls, i)
                   /\ toast' = Toast("error", "Erreur lors de la mise à jour du statut")
                   /\ UNCHANGED <<tasks, taskTrail>>
  /\ UNCHANGED <<projects, notes, documentation, environments, dependencies,
                 versions, bucket, nextId, projectId, taskView>>
  /\ UNCHANGED <<exceptTasks, requestVars>>

\* updateTaskStatus: the fetchTasks() it ends with returns.
TaskFetchReturn ==
  /\ \E i \in 1..Len(taskCalls), ok \in BOOLEAN :
       /\ taskCalls[i].pc = "fetch"
       /\ taskCalls' = RemoveAt(taskCalls, i)
       /\ IF ok
          THEN /\ taskView' = IF taskCalls[i].project = projectId
                              THEN RowsOf(tasks, projectId) ELSE taskView
               /\ toast' = toast
          ELSE /\ taskView' = taskView
               /\ toast' = Toast("error", "Erreur lors du chargement des tâches")
  /\ UNCHANGED <<backendVars, projectId, taskTrail>>
  /\ UNCHANGED <<exceptTasks, requestVars>>

-----------------------------------------------------------------------------
(* VersionsSection.tsx                                                      *)

\* Version labels and file names the form is filled with.
VersionLabels == {"1.0", "1.1"}

FileNames == {"app.zip"}

\* `${user.id}/${projectId}/${data.version}/${file.name}`
FilePath(user, project, label, file) ==
  [user |-> user, project |-> project, version |-> label, file |-> file]

VersionInit ==
  /\ versionView = {}
  /\ uploading = FALSE
  /\ versionUpload = NoCall
  /\ versionDels = <<>>
  /\ versionDelLast = NoCall

\* onSubmit up to the upload request: setUploading(true), getUser, filePath.
VersionSubmitBegin ==
  /\ projectId # NoProject
  /\ ~uploading                      \* the submit button is disabled while uploading
  /\ nextId <= MaxId
  /\ Cardinality(versions) < MaxVersions
  /\ \E label \in VersionLabels, file \in FileNames, user \in {CurrentUser, NoUser} :
       IF user = NoUser
       THEN /\ toast' = Toast("error", "Erreur lors de l'enregistrement de la version")
            /\ UNCHANGED <<uploading, versionUpload>>
       ELSE /\ uploading' = TRUE
            /\ versionUpload' = [pc |-> "upload", project |-> projectId, version |-> label,
                                 path |-> FilePath(user, projectId, label, file),
                                 user |-> user]
            /\ toast' = toast
  /\ UNCHANGED <<backendVars, projectId, versionView, versionDels, versionDelLast>>
  /\ UNCHANGED <<exceptVersions, requestVars>>

\* onSubmit: storage.upload(filePath, file) returns. An upload to a path that
\* holds a blob already is refused by the storage service.
VersionUploadReturn ==
  /\ versionUpload.pc = "upload"
  /\ \E ok \in BOOLEAN :
       IF ok /\ versionUpload.path \notin bucket
       THEN /\ bucket' = bucket \cup {versionUpload.path}
            /\ versionUpload' = [versionUpload EXCEPT !.pc = "insert"]
            /\ insertSent' = InsertOf("versions",
                                      [project_id |-> versionUpload.project,
                                       version |-> versionUpload.version,
                                       file_path |-> versionUpload.path,
                                       user_id |-> versionUpload.user])
            /\ UNCHANGED <<uploading, toast>>
       ELSE /\ toast' = Toast("error", "Erreur lors de l'enregistrement de la version")
            /\ uploading' = FALSE
            /\ versionUpload' = NoCall
            /\ bucket' = bucket
            /\ insertSent' = insertSent
  /\ UNCHANGED <<projects, tasks, notes, documentation, environments, dependencies,
                 versions, nextId, projectId, versionView, versionDels, versionDelLast>>
  /\ UNCHANGED exceptVersions

\* onSubmit: the insert of the versions row returns; on success fetchVersions().
VersionInsertReturn ==
  /\ versionUpload.pc = "insert"
  /\ \E ok \in BOOLEAN, fetched \in BOOLEAN :
       LET row == [id |-> nextId, project_id |-> versionUpload.project,
                   version |-> versionUpload.version, file_path |-> versionUpload.path,
                   user_id |-> versionUpload.user]
       IN  IF ok /\ InsertAccepted(row)
           THEN /\ versions' = versions \cup {row}
                /\ nextId' = nextId + 1
                /\ IF fetched /\ versionUpload.project = projectId
                   THEN /\ versionView' = RowsOf(versions', projectId)
                        /\ toast' = Toast("success", "Version ajoutée")
                   ELSE /\ versionView' = versionView
                        /\ toast' = IF fetched THEN Toast("success", "Version ajoutée")
                                    ELSE Toast("error", "Erreur lors du chargement des versions")
           ELSE /\ toast' = Toast("error", "Erreur lors de l'enregistrement de la version")
                /\ UNCHANGED <<versions, nextId, versionView>>
  /\ uploading' = FALSE
  /\ versionUpload' = NoCall
  /\ UNCHANGED <<projects, tasks, notes, documentation, environments, dependencies,
                 bucket, projectId, versionDels, versionDelLast>>
  /\ UNCHANGED <<exceptVersions, requestVars>>

\* The delete button of a displayed version: deleteVersion(version) asks the
\* storage service to remove the blob.
VersionDeleteClick ==
  /\ Len(versionDels) < MaxInFlight
  /\ \E v \in versionView :
       versionDels' = Append(versionDels,
                             [pc |-> "remove", project |-> projectId, version |-> v,
                              blob |-> "pending", rowDelete |-> "none", shown |-> NoToast])
  /\ UNCHANGED <<backendVars, pageVars, versionView, uploading, versionUpload,
                 versionDelLast>>
  /\ UNCHANGED <<exceptVersions, requestVars>>

\* What deleteVersion does when storage.remove returns without storageError:
\* it goes on to delete the row.
AfterBlobRemoved(call) == [call EXCEPT !.pc = "row", !.blob = "ok", !.rowDelete = "issued"]

\* A deleteVersion that does not look at storageError.
AfterBlobFailedIgnoring(call) ==
  [call EXCEPT !.pc = "row", !.blob = "failed", !.rowDelete = "issued"]

\* What deleteVersion does when storage.remove returns storageError: it
\* throws, and the catch shows the error.
AfterBlobFailed(call) ==
  [call EXCEPT !.pc = "ended", !.blob = "failed",
               !.shown = Toast("error", "Erreur lors de la suppression")]

\* deleteVersion: storage.remove([version.file_path]) returns.
VersionRemoveReturn ==
  /\ \E i \in 1..Len(versionDels), ok \in BOOLEAN :
       LET call == versionDels[i]
           after == IF ok THEN AfterBlobRemoved(call) ELSE AfterBlobFailed(call)
       IN  /\ call.pc = "remove"
           /\ bucket' = IF ok THEN bucket \ {call.version.file_path} ELSE bucket
           /\ IF after.pc = "ended"
              THEN /\ versionDels' = RemoveAt(versionDels, i)
                   /\ versionDelLast' = after
                   /\ toast' = after.shown
              ELSE /\ versionDels' = [versionDels EXCEPT ![i] = after]
                   /\ UNCHANGED <<versionDelLast, toast>>
  /\ UNCHANGED <<projects, tasks, notes, documentation, environments, dependencies,
                 versions, nextId, projectId, versionView, uploading, versionUpload>>
  /\ UNCHANGED <<exceptVersions, requestVars>>

\* deleteVersion: the delete of the versions row returns; on success
\* fetchVersions().
VersionRowDeleteReturn ==
  /\ \E i \in 1..Len(versionDels), ok \in BOOLEAN, fetched \in BOOLEAN :
       LET call == versionDels[i]
           shown == IF ~ok THEN Toast("error", "Erreur lors de la suppression")
                    ELSE IF fetched THEN Toast("success", "Version supprimée")
                    ELSE Toast("error", "Erreur lors du chargement des versions")
       IN  /\ call.pc = "row"
           /\ versions' = IF ok THEN {r \in versions : r.id # call.version.id}
                          ELSE versions
           /\ versionView' = IF ok /\ fetched /\ call.project = projectId
                             THEN RowsOf(versions', projectId) ELSE versionView
           /\ versionDels' = RemoveAt(versionDels, i)
           /\ versionDelLast' = [call EXCEPT !.pc = "ended",
                                             !.rowDelete = IF ok THEN "ok" ELSE "failed",
                                             !.shown = shown]
           /\ toast' = shown
  /\ UNCHANGED <<projects, tasks, notes, documentation, environments, dependencies,
                 bucket, nextId, projectId, uploading, versionUpload>>
  /\ UNCHANGED <<exceptVersions, requestVars>>

-----------------------------------------------------------------------------
(* The semver functions checkForUpdates calls                               *)

Digits == <<"0", "1", "2", "3", "4", "5", "6", "7", "8", "9">>

IsDigit(c) == \E i \in 1..Len(Digits) : Digits[i] = c

DigitValue(c) == (CHOOSE i \in 1..Len(Digits) : Digits[i] = c) - 1

\* s cut at every occurrence of character c.
RECURSIVE SplitOn(_, _)
SplitOn(s, c) ==
  LET i == IndexOf(s, c)
  IN  IF i = 0 THEN <<s>> ELSE <<Take(s, i - 1)>> \o SplitOn(Drop(s, i), c)

\* A numeric identifier: 0|[1-9]\d*
IsNumericId(s) ==
  /\ s # <<>>
  /\ \A i \in 1..Len(s) : IsDigit(s[i])
  /\ Len(s) > 1 => s[1] # "0"

RECURSIVE NumericValue(_)
NumericValue(s) ==
  IF s = <<>> THEN 0
  ELSE 10 * NumericValue(Take(s, Len(s) - 1)) + DigitValue(s[Len(s)])

\* What semver gives for a string that is no version.
Null == <<"null">>

\* semver.valid(v): the version without its leading v when v is
\* MAJOR.MINOR.PATCH, null otherwise.
SemverValid(v) ==
  LET plain == IF v # <<>> /\ Head(v) = "v" THEN Tail(v) ELSE v
      parts == SplitOn(plain, ".")
  IN  IF Len(parts) = 3 /\ \A i \in 1..3 : IsNumericId(parts[i])
      THEN plain
      ELSE Null

\* version.trim().replace(/^[=v]+/, '')
RECURSIVE DropEqualsAndV(_)
DropEqualsAndV(s) ==
  IF s # <<>> /\ Head(s) \in {"=", "v"} THEN DropEqualsAndV(Tail(s)) ELSE s

\* semver.clean(v)
SemverClean(v) == SemverValid(DropEqualsAndV(Trim(v)))

\* semver.gt(a, b) on two valid versions.
SemverGt(a, b) ==
  LET x == SplitOn(a, ".")
      y == SplitOn(b, ".")
      n(p, i) == NumericValue(p[i])
  IN  \/ n(x, 1) > n(y, 1)
      \/ n(x, 1) = n(y, 1) /\ n(x, 2) > n(y, 2)
      \/ n(x, 1) = n(y, 1) /\ n(x, 2) = n(y, 2) /\ n(x, 3) > n(y, 3)

\* a || b on a value that may be null.
OrElse(a, b) == IF a = Null THEN b ELSE a

\* dep.version.replace(/[\^~]/, ''): the first ^ or ~ taken out.
DropFirstRangeOperator(v) ==
  LET hits == {i \in 1..Len(v) : v[i] \in {"^", "~"}}
  IN  IF hits = {} THEN v
      ELSE RemoveAt(v, CHOOSE i \in hits : \A j \in hits : i <= j)

-----------------------------------------------------------------------------
(* DependenciesSection.tsx, and the dependencies section kept in            *)
(* ProjectConfigDialog.tsx                                                  *)

DepNameOrder == <<"react", "vite">>

DepNames == {DepNameOrder[i] : i \in 1..Len(DepNameOrder)}

TxtCaret100 == <<"^", "1", ".", "0", ".", "0">>
TxtTilde200 == <<"~", "2", ".", "0", ".", "0">>
TxtLatest == <<"l", "a", "t", "e", "s", "t">>
Txt100 == <<"1", ".", "0", ".", "0">>
Txt200 == <<"2", ".", "0", ".", "0">>

\* What is typed in the dependency form.
DepForms ==
  {[name |-> "react", version |-> TxtCaret100, type |-> "production"],
   [name |-> "vite", version |-> TxtTilde200, type |-> "development"],
   [name |-> "vite", version |-> TxtLatest, type |-> "production"]}

\* The version a manifest declares for each of its packages.
ManifestVersion == TxtCaret100

\* Dependencies added by hand over a run.
MaxDeps == 2

\* A field a row of the view does not have.
Unset == <<"unset">>

\* A package.json: the keys of its dependencies and of its devDependencies.
Manifests == [prod : SUBSET {"react"}, dev : SUBSET {"react", "vite"}]

NoManifest == [prod |-> {"none"}, dev |-> {"none"}]

SyncVariants == {"DependenciesSection", "ProjectConfigDialog"}

\* What stops a sync before it has a manifest.
PreflightFailures == {"noUser", "noGithubUrl", "badUrl", "fetchFailed"}

\* JSON.parse(packageJsonContent) throws, or response.json() rejects.
BadJson == "badJson"

PreflightToast(variant, failure) ==
  IF variant = "DependenciesSection"
  THEN CASE failure = "noUser" -> Toast("error", "User not authenticated")
         [] failure = "noGithubUrl" ->
              Toast("error", "URL GitHub non configurée. Ajoutez l'URL GitHub dans les paramètres du projet.")
         [] failure = "badUrl" ->
              Toast("error", "URL GitHub invalide. Format attendu: https://github.com/owner/repo")
         [] failure = BadJson ->
              Toast("error", "Erreur lors de la lecture du package.json. Vérifiez que le fichier est valide.")
         [] OTHER ->
              Toast("error", "Impossible d'accéder au contenu du repository. Vérifiez l'URL et les permissions.")
  ELSE CASE failure = "noGithubUrl" -> Toast("error", "URL GitHub non configurée")
         [] failure = "badUrl" -> Toast("error", "URL GitHub invalide")
         [] OTHER -> Toast("error", "Erreur lors de la synchronisation")

\* The keys of S in the order Object.entries gives them.
NamesInOrder(S) == SelectSeq(DepNameOrder, LAMBDA n : n \in S)

\* depsToSync: one object per declared dependency, then per devDependency.
DepsToSync(M, p, user) ==
  LET obj(n, type) == [project_id |-> p, name |-> n, version |-> ManifestVersion,
                       type |-> type, user_id |-> user]
      prod == NamesInOrder(M.prod)
      dev == NamesInOrder(M.dev)
  IN  [i \in 1..Len(prod) |-> obj(prod[i], "production")] \o
      [i \in 1..Len(dev) |-> obj(dev[i], "development")]

\* The rows the backend makes of the inserted objects, ids from first on.
InsertedRows(objs, first) ==
  {[id |-> first + i - 1, project_id |-> objs[i].project_id, name |-> objs[i].name,
    version |-> objs[i].version, type |-> objs[i].type, user_id |-> objs[i].user_id]
     : i \in 1..Len(objs)}

\* A backend row as fetchDependencies() puts it in the view: no annotation.
Displayed(r) ==
  [id |-> r.id, project_id |-> r.project_id, name |-> r.name, version |-> r.version,
   type |-> r.type, user_id |-> r.user_id, latestVersion |-> Unset,
   hasUpdate |-> "unset"]

\* fetchDependencies(): the rows of the page's project.
FetchedDependencies(table, p) == {Displayed(r) : r \in RowsOf(table, p)}

DepInit ==
  /\ depView = {}
  /\ syncing = FALSE
  /\ depSync = NoCall
  /\ depSyncLast = NoCall
  /\ checkingUpdates = FALSE
  /\ depCheck = NoCall
  /\ depCheckLast = NoCall

\* A sync in flight is no longer the only writer of the table.
NotAlone(call) == IF call.pc = "none" THEN call ELSE [call EXCEPT !.alone = FALSE]

\* onSubmit with no dependency being edited: insert the form's dependency for
\* the page's project, then fetchDependencies().
DepOnSubmit ==
  /\ projectId # NoProject
  /\ nextId <= MaxId
  /\ Cardinality(dependencies) < MaxDeps
  /\ \E data \in DepForms, user \in {CurrentUser, NoUser}, fetched \in BOOLEAN :
       LET row == [id |-> nextId, project_id |-> projectId, name |-> data.name,
                   version |-> data.version, type |-> data.type, user_id |-> user]
       IN  /\ insertSent' = IF user = NoUser THEN insertSent ELSE InsertOf("dependencies", row)
           /\ IF InsertAccepted(row)
              THEN /\ dependencies' = dependencies \cup {row}
                   /\ nextId' = nextId + 1
                   /\ depSync' = NotAlone(depSync)
                   /\ IF fetched
                      THEN /\ depView' = FetchedDependencies(dependencies', projectId)
                           /\ toast' = Toast("success", "Dépendance ajoutée")
                      ELSE /\ depView' = depView
                           /\ toast' = Toast("error", "Erreur lors du chargement des dépendances")
              ELSE /\ toast' = Toast("error", "Erreur lors de l'enregistrement")
                   /\ UNCHANGED <<dependencies, nextId, depSync, depView>>
  /\ UNCHANGED <<projects, tasks, notes, documentation, environments, versions,
                 bucket, projectId>>
  /\ UNCHANGED <<syncing, depSyncLast, checkingUpdates, depCheck, depCheckLast>>
  /\ UNCHANGED exceptDeps

\* The fields of dependencySchema, which the form holds.
dependencyFormFields == {"name", "version", "type", "description", "homepage"}

\* The fields of a displayed dependency.
FieldsOf(dep) ==
  {"id", "project_id", "name", "version", "type", "description", "homepage", "user_id",
   "created_at"}
    \cup (IF dep.latestVersion # Unset THEN {"latestVersion"} ELSE {})
    \cup (IF dep.hasUpdate # "unset" THEN {"hasUpdate"} ELSE {})

\* A form that is given the whole displayed row.
startEditingWholeRow(dep) == FieldsOf(dep)

\* startEditing(dep): the fields of dep that reset(...) puts in the form.
startEditing(dep) == FieldsOf(dep) \cap dependencyFormFields

\* What the form holds at submit: the values startEditing put in it, with the
\* version replaced.
EditedForms(dep) ==
  {[name |-> dep.name, version |-> v, type |-> dep.type] : v \in {TxtTilde200}}

\* startEditing on a displayed dependency, then onSubmit with that dependency
\* being edited: update the row with the form's data, then fetchDependencies().
DepEditSubmit ==
  /\ projectId # NoProject
  /\ \E dep \in depView, user \in {CurrentUser, NoUser},
        ok \in BOOLEAN, fetched \in BOOLEAN : \E data \in EditedForms(dep) :
       IF user = NoUser
       THEN /\ toast' = Toast("error", "Erreur lors de l'enregistrement")
            /\ UNCHANGED <<dependencies, depView, depSync, insertSent>>
       ELSE /\ insertSent' = UpdateOf("dependencies", dep.id, startEditing(dep))
            /\ IF ok
               THEN /\ dependencies' =
                         {IF r.id = dep.id
                          THEN [r EXCEPT !.name = data.name, !.version = data.version,
                                         !.type = data.type]
                          ELSE r : r \in dependencies}
                    /\ depSync' = NotAlone(depSync)
                    /\ IF fetched
                       THEN /\ depView' = FetchedDependencies(dependencies', projectId)
                            /\ toast' = Toast("success", "Dépendance mise à jour")
                       ELSE /\ depView' = depView
                            /\ toast' = Toast("error", "Erreur lors du chargement des dépendances")
               ELSE /\ toast' = Toast("error", "Erreur lors de l'enregistrement")
                    /\ UNCHANGED <<dependencies, depView, depSync>>
  /\ UNCHANGED <<projects, tasks, notes, documentation, environments, versions,
                 bucket, nextId, projectId>>
  /\ UNCHANGED <<syncing, depSyncLast, checkingUpdates, depCheck, depCheckLast>>
  /\ UNCHANGED exceptDeps

\* The record of a sync that has ended.
SyncEnded(call, failedAt, rowsAfter) ==
  [pc |-> "ended", variant |-> call.variant, project |-> call.project,
   manifest |-> call.manifest, rowsBefore |-> call.rowsBefore, alone |-> call.alone,
   failedAt |-> failedAt, rowsAfter |-> rowsAfter]

\* A syncWithGitHub that sends its delete before it has parsed the manifest.
DepSyncBeginDeleteFirst ==
  /\ projectId # NoProject
  /\ ~syncing
  /\ depSync = NoCall
  /\ nextId <= MaxId
  /\ \E variant \in SyncVariants, pre \in PreflightFailures \cup {BadJson, "none"},
        M \in Manifests :
       LET before == RowsOf(dependencies, projectId)
           call(m) == [pc |-> "delete", variant |-> variant, project |-> projectId,
                       manifest |-> m, rowsBefore |-> before, alone |-> TRUE]
       IN  CASE pre # "none" ->
                  /\ toast' = PreflightToast(variant, pre)
                  /\ depSyncLast' = SyncEnded(call(NoManifest),
                                               IF pre = BadJson THEN BadJson ELSE "preflight",
                                               before)
                  /\ dependencies' = IF pre = BadJson THEN dependencies \ before
                                     ELSE dependencies
                  /\ UNCHANGED <<depSync, syncing>>
             [] pre = "none" /\ variant = "DependenciesSection"
                  /\ DepsToSync(M, projectId, CurrentUser) = <<>> ->
                  /\ toast' = Toast("error", "Aucune dépendance trouvée dans le package.json")
                  /\ depSyncLast' = SyncEnded(call(M), "empty", before)
                  /\ UNCHANGED <<depSync, syncing, dependencies>>
             [] OTHER ->
                  /\ depSync' = call(M)
                  /\ syncing' = TRUE
                  /\ UNCHANGED <<toast, depSyncLast, dependencies>>
  /\ UNCHANGED <<projects, tasks, notes, documentation, environments, versions,
                 bucket, nextId, projectId>>
  /\ UNCHANGED <<depView, checkingUpdates, depCheck, depCheckLast>>
  /\ UNCHANGED <<exceptDeps, requestVars>>

\* syncWithGitHub up to its first write: the user, the project's github_url,
\* the repository's package.json, depsToSync; then the delete is sent.
DepSyncBegin ==
  /\ projectId # NoProject
  /\ ~syncing
  /\ depSync = NoCall
  /\ nextId <= MaxId
  /\ \E variant \in SyncVariants, pre \in PreflightFailures \cup {BadJson, "none"},
        M \in Manifests :
       LET before == RowsOf(dependencies, projectId)
           call(m) == [pc |-> "delete", variant |-> variant, project |-> projectId,
                       manifest |-> m, rowsBefore |-> before, alone |-> TRUE]
       IN  CASE pre # "none" ->
                  /\ toast' = PreflightToast(variant, pre)
                  /\ depSyncLast' = SyncEnded(call(NoManifest),
                                               IF pre = BadJson THEN BadJson ELSE "preflight",
                                               before)
                  /\ UNCHANGED <<depSync, syncing>>
             [] pre = "none" /\ variant = "DependenciesSection"
                  /\ DepsToSync(M, projectId, CurrentUser) = <<>> ->
                  /\ toast' = Toast("error", "Aucune dépendance trouvée dans le package.json")
                  /\ depSyncLast' = SyncEnded(call(M), "empty", before)
                  /\ UNCHANGED <<depSync, syncing>>
             [] OTHER ->
                  /\ depSync' = call(M)
                  /\ syncing' = TRUE
                  /\ UNCHANGED <<toast, depSyncLast>>
  /\ UNCHANGED <<backendVars, projectId>>
  /\ UNCHANGED <<depView, checkingUpdates, depCheck, depCheckLast>>
  /\ UNCHANGED <<exceptDeps, requestVars>>


\* The delete of the project's rows returns.
DepSyncDeleteReturn ==
  /\ depSync.pc = "delete"
  /\ \E ok \in BOOLEAN, fetched \in BOOLEAN :
       LET toSync == DepsToSync(depSync.manifest, depSync.project, CurrentUser)
           kept == dependencies \ RowsOf(dependencies, depSync.project)
       IN  /\ IF ~ok
              THEN /\ toast' = Toast("error", "Erreur lors de la synchronisation")
                   /\ depSyncLast' = SyncEnded(depSync, "delete",
                                               RowsOf(dependencies, depSync.project))
                   /\ depSync' = NoCall
                   /\ syncing' = FALSE
                   /\ UNCHANGED <<dependencies, depView>>
              ELSE /\ dependencies' = kept
                   /\ IF toSync = <<>>
                      THEN /\ depSyncLast' = SyncEnded(depSync, "none", {})
                           /\ depSync' = NoCall
                           /\ syncing' = FALSE
                           /\ IF fetched
                              THEN /\ depView' = FetchedDependencies(kept, projectId)
                                   /\ toast' = Toast("success", "Dépendances synchronisées avec GitHub")
                              ELSE /\ depView' = depView
                                   /\ toast' = Toast("error", "Erreur lors du chargement des dépendances")
                      ELSE /\ depSync' = [depSync EXCEPT !.pc = "insert"]
                           /\ UNCHANGED <<depSyncLast, syncing, depView, toast>>
           /\ insertSent' = IF ok /\ toSync # <<>>
                            THEN InsertOf("dependencies", toSync[1])
                            ELSE insertSent
  /\ UNCHANGED <<projects, tasks, notes, documentation, environments, versions,
                 bucket, nextId, projectId>>
  /\ UNCHANGED <<checkingUpdates, depCheck, depCheckLast>>
  /\ UNCHANGED exceptDeps

\* The insert of depsToSync returns.
DepSyncInsertReturn ==
  /\ depSync.pc = "insert"
  /\ \E ok \in BOOLEAN, fetched \in BOOLEAN :
       LET toSync == DepsToSync(depSync.manifest, depSync.project, CurrentUser)
           added == InsertedRows(toSync, nextId)
       IN  IF ok /\ InsertAccepted(toSync[1])
           THEN /\ dependencies' = dependencies \cup added
                /\ nextId' = nextId + Len(toSync)
                /\ depSyncLast' = SyncEnded(depSync, "none",
                                            RowsOf(dependencies', depSync.project))
                /\ IF fetched
                   THEN /\ depView' = FetchedDependencies(dependencies', projectId)
                        /\ toast' = Toast("success", "Dépendances synchronisées avec GitHub")
                   ELSE /\ depView' = depView
                        /\ toast' = Toast("error", "Erreur lors du chargement des dépendances")
           ELSE /\ toast' = Toast("error", "Erreur lors de la synchronisation")
                /\ depSyncLast' = SyncEnded(depSync, "insert",
                                            RowsOf(dependencies, depSync.project))
                /\ UNCHANGED <<dependencies, nextId, depView>>
  /\ depSync' = NoCall
  /\ syncing' = FALSE
  /\ UNCHANGED <<projects, tasks, notes, documentation, environments, versions,
                 bucket, projectId>>
  /\ UNCHANGED <<checkingUpdates, depCheck, depCheckLast>>
  /\ UNCHANGED <<exceptDeps, requestVars>>

\* What the registry answers for one package: the request fails, the answer
\* names no latest version, or it names one.
RegistryLatest == {Txt100, Txt200}

RegistryOutcomes ==
  {[kind |-> "failed", latest |-> <<>>], [kind |-> "nolatest", latest |-> <<>>]} \cup
  {[kind |-> "latest", latest |-> v] : v \in RegistryLatest}

\* semver.valid(current) && semver.valid(latest) && semver.gt(latest, current)
HasUpdate(current, latest) ==
  IF SemverValid(current) = Null \/ SemverValid(latest) = Null THEN "null"
  ELSE IF SemverGt(latest, current) THEN "true"
  ELSE "false"

\* The callback checkForUpdates maps over the displayed dependencies.
CheckOne(dep, outcome) ==
  IF outcome.kind # "latest" THEN dep
  ELSE LET currentVersion ==
             OrElse(SemverClean(DropFirstRangeOperator(dep.version)), dep.version)
           cleanLatestVersion == OrElse(SemverClean(outcome.latest), outcome.latest)
       IN  [dep EXCEPT !.latestVersion = cleanLatestVersion,
                       !.hasUpdate = HasUpdate(currentVersion, cleanLatestVersion)]

\* A batch that one failed lookup abandons as a whole.
CheckAllOrNothing(deps, outcomes) ==
  IF \E d \in deps : outcomes[d.id].kind = "failed" THEN deps
  ELSE {CheckOne(d, outcomes[d.id]) : d \in deps}

\* updatedDeps: Promise.all over the callbacks.
CheckAll(deps, outcomes) == {CheckOne(d, outcomes[d.id]) : d \in deps}

\* checkForUpdates starts: one registry request per displayed dependency.
DepCheckBegin ==
  /\ ~checkingUpdates
  /\ depCheck = NoCall
  /\ checkingUpdates' = TRUE
  /\ depCheck' = [pc |-> "lookup", deps |-> depView]
  /\ depCheckLast' = NoCall
  /\ UNCHANGED <<backendVars, pageVars>>
  /\ UNCHANGED <<depView, syncing, depSync, depSyncLast>>
  /\ UNCHANGED <<exceptDeps, requestVars>>

\* Every lookup has settled: the view takes updatedDeps.
DepCheckReturn ==
  /\ depCheck.pc = "lookup"
  /\ \E outcomes \in [{d.id : d \in depCheck.deps} -> RegistryOutcomes] :
       /\ depView' = CheckAll(depCheck.deps, outcomes)
       /\ depCheckLast' = [pc |-> "ended", deps |-> depCheck.deps,
                           outcomes |-> outcomes, result |-> depView']
  /\ toast' = Toast("success", "Versions vérifiées avec succès")
  /\ depCheck' = NoCall
  /\ checkingUpdates' = FALSE
  /\ UNCHANGED <<backendVars, projectId>>
  /\ UNCHANGED <<syncing, depSync, depSyncLast>>
  /\ UNCHANGED <<exceptDeps, requestVars>>

-----------------------------------------------------------------------------
(* EnvironmentsSection.tsx: syncWithGitHub                                  *)

\* The variables the fetched files give for one environment, as key/value pairs.
\* A variable that a script of package.json names is given the value ''.
EnvVarMaps == {{}, {<<"API_URL", "a">>}, {<<"API_URL", "b">>}, {<<"NODE_ENV", "">>}}

\* const variables = { development: {}, production: {} } once every file is
\* processed.
ParsedVariables == [development : EnvVarMaps, production : EnvVarMaps]

NoVariables == [development |-> {<<"none", "none">>}, production |-> {<<"none", "none">>}]

\* What JSON.parse(file.content) made of the package.json that was fetched.
PackageJsonRead == {"parsed", "unparsable"}

\* Object.entries(variables), in order.
EnvNameOrder == <<"development", "production">>

\* What stops the sync before it has parsed the files.
EnvPreflightToast(failure) ==
  CASE failure = "noUser" -> Toast("error", "User not authenticated")
    [] failure = "noGithubUrl" ->
         Toast("error", "URL GitHub non configurée. Ajoutez l'URL GitHub dans les paramètres du projet.")
    [] failure = "badUrl" ->
         Toast("error", "URL GitHub invalide. Format attendu: https://github.com/owner/repo")
    [] OTHER ->
         Toast("error", "Aucun fichier de configuration d'environnement trouvé dans le repository.")

EnvSyncInit ==
  /\ envView = {}
  /\ envSyncing = FALSE
  /\ envSync = NoCall
  /\ envSyncLast = NoCall

\* What is typed in the environment form.
EnvForms ==
  {[name |-> "staging", variables |-> {<<"API_URL", "a">>}],
   [name |-> "", variables |-> {<<"API_URL", "a">>}],
   [name |-> "staging", variables |-> {}],
   [name |-> "staging", variables |-> {<<"API_URL", "">>}],
   [name |-> "staging", variables |-> {<<"", "a">>}]}

\* envSchema: a name, and at least one variable, each with a key and a value.
envSchemaAccepts(data) ==
  /\ data.name # ""
  /\ data.variables # {}
  /\ \A kv \in data.variables : kv[1] # "" /\ kv[2] # ""

\* handleSubmit(onSubmit) with no environment being edited: when the form
\* passes envSchema, insert its environment for the page's project, then
\* fetchEnvironments().
EnvOnSubmit ==
  /\ projectId # NoProject
  /\ nextId <= MaxId
  /\ \E data \in {d \in EnvForms : envSchemaAccepts(d)}, user \in {CurrentUser, NoUser},
        fetched \in BOOLEAN :
       LET row == [id |-> nextId, project_id |-> projectId, name |-> data.name,
                   variables |-> data.variables, user_id |-> user]
       IN  /\ insertSent' = InsertOf("environments", row)
           /\ IF InsertAccepted(row)
              THEN /\ environments' = environments \cup {row}
                   /\ nextId' = nextId + 1
                   /\ IF fetched
                      THEN /\ envView' = RowsOf(environments', projectId)
                           /\ toast' = Toast("success", "Environnement ajouté")
                      ELSE /\ envView' = envView
                           /\ toast' = Toast("error", "Erreur lors du chargement des environnements")
              ELSE /\ toast' = Toast("error", "Erreur lors de l'enregistrement")
                   /\ UNCHANGED <<environments, nextId, envView>>
  /\ UNCHANGED <<projects, tasks, notes, documentation, dependencies, versions,
                 bucket, projectId>>
  /\ UNCHANGED <<envSyncing, envSync, envSyncLast>>
  /\ UNCHANGED exceptEnvSync

\* The first environment from position i on whose variables are not empty,
\* Len(EnvNameOrder) + 1 when there is none.
RECURSIVE NextEnvToInsert(_, _)
NextEnvToInsert(parsed, i) ==
  IF i > Len(EnvNameOrder) THEN i
  ELSE IF parsed[EnvNameOrder[i]] # {} THEN i
  ELSE NextEnvToInsert(parsed, i + 1)

EnvSyncEnded(call, failedAt, rowsAfter) ==
  [pc |-> "ended", project |-> call.project, parsed |-> call.parsed,
   packageJson |-> call.packageJson, rowsBefore |-> call.rowsBefore,
   failedAt |-> failedAt, rowsAfter |-> rowsAfter]

\* The sync is over with every insert accepted: toast, fetchEnvironments().
EnvSyncSucceeds(call, table, fetched) ==
  /\ envSyncLast' = EnvSyncEnded(call, "none", RowsOf(table, call.project))
  /\ envSync' = NoCall
  /\ envSyncing' = FALSE
  /\ IF fetched
     THEN /\ envView' = RowsOf(table, projectId)
          /\ toast' = Toast("success", "Environnements synchronisés avec GitHub")
     ELSE /\ envView' = envView
          /\ toast' = Toast("error", "Erreur lors du chargement des environnements")

\* syncWithGitHub up to its first write: the user, the project's github_url,
\* the repository's files parsed into variables; then the first insert is sent.
EnvSyncBegin ==
  /\ projectId # NoProject
  /\ ~envSyncing
  /\ envSync = NoCall
  /\ nextId <= MaxId
  /\ \E pre \in PreflightFailures \cup {"none"}, parsed \in ParsedVariables,
        packageJson \in PackageJsonRead, fetched \in BOOLEAN :
       LET before == RowsOf(environments, projectId)
           call(v) == [pc |-> "insert", project |-> projectId, parsed |-> v,
                       packageJson |-> packageJson, rowsBefore |-> before, at |-> NextEnvToInsert(v, 1)]
       IN  CASE pre # "none" ->
                  /\ toast' = EnvPreflightToast(pre)
                  /\ envSyncLast' = EnvSyncEnded(call(NoVariables), "preflight", before)
                  /\ UNCHANGED <<envSync, envSyncing, envView>>
             [] pre = "none" /\ NextEnvToInsert(parsed, 1) > Len(EnvNameOrder) ->
                  EnvSyncSucceeds(call(parsed), environments, fetched)
             [] OTHER ->
                  /\ envSync' = call(parsed)
                  /\ envSyncing' = TRUE
                  /\ UNCHANGED <<toast, envSyncLast, envView>>
  /\ UNCHANGED <<backendVars, projectId>>
  /\ UNCHANGED <<exceptEnvSync, requestVars>>

\* The insert of one environment returns; the next one is sent, or the sync
\* is over.
EnvSyncInsertReturn ==
  /\ envSync.pc = "insert"
  /\ \E ok \in BOOLEAN, fetched \in BOOLEAN :
       LET envName == EnvNameOrder[envSync.at]
           row == [id |-> nextId, project_id |-> envSync.project, name |-> envName,
                   variables |-> envSync.parsed[envName], user_id |-> CurrentUser]
           next == NextEnvToInsert(envSync.parsed, envSync.at + 1)
       IN  IF ok /\ InsertAccepted(row)
           THEN /\ environments' = environments \cup {row}
                /\ nextId' = nextId + 1
                /\ IF next > Len(EnvNameOrder)
                   THEN EnvSyncSucceeds(envSync, environments', fetched)
                   ELSE /\ envSync' = [envSync EXCEPT !.at = next]
                        /\ UNCHANGED <<envSyncLast, envSyncing, envView, toast>>
           ELSE /\ toast' = Toast("error", "Erreur lors de la synchronisation")
                /\ envSyncLast' = EnvSyncEnded(envSync, "insert",
                                               RowsOf(environments, envSync.project))
                /\ envSync' = NoCall
                /\ envSyncing' = FALSE
                /\ UNCHANGED <<environments, nextId, envView>>
  /\ UNCHANGED <<projects, tasks, notes, documentation, dependencies, versions,
                 bucket, projectId>>
  /\ UNCHANGED <<exceptEnvSync, requestVars>>

-----------------------------------------------------------------------------
(* lib/api-config.ts: the GitHub token                                      *)

LowerLetters == <<"a", "b", "c", "d", "e", "f", "g", "h", "i", "j", "k", "l", "m",
                  "n", "o", "p", "q", "r", "s", "t", "u", "v", "w", "x", "y", "z">>

UpperLetters == <<"A", "B", "C", "D", "E", "F", "G", "H", "I", "J", "K", "L", "M",
                  "N", "O", "P", "Q", "R", "S", "T", "U", "V", "W", "X", "Y", "Z">>

\* A character as the flag i of a regular expression reads it.
LowerOf(c) ==
  IF \E i \in 1..Len(UpperLetters) : UpperLetters[i] = c
  THEN LowerLetters[CHOOSE i \in 1..Len(UpperLetters) : UpperLetters[i] = c]
  ELSE c

ToLower(s) == [i \in 1..Len(s) |-> LowerOf(s[i])]

\* [a-zA-Z0-9] and [a-f0-9], both under flag i
IsAlnum(c) == IsDigit(c) \/ \E i \in 1..Len(LowerLetters) : LowerLetters[i] = LowerOf(c)

IsHex(c) == IsDigit(c) \/ LowerOf(c) \in {"a", "b", "c", "d", "e", "f"}

\* prefix followed by exactly n characters of [a-zA-Z0-9]
PrefixThenAlnum(token, prefix, n) ==
  /\ Len(token) = Len(prefix) + n
  /\ StartsWith(ToLower(token), prefix)
  /\ \A i \in Len(prefix) + 1..Len(token) : IsAlnum(token[i])

TxtGhp == <<"g", "h", "p", "_">>
TxtGho == <<"g", "h", "o", "_">>
TxtGithubPat == <<"g", "i", "t", "h", "u", "b", "_", "p", "a", "t", "_">>

\* isValidGitHubToken(token)
isValidGitHubToken(token) ==
  /\ token # <<>>
  /\ \/ PrefixThenAlnum(token, TxtGhp, 36)
     \/ /\ Len(token) = Len(TxtGithubPat) + 22 + 1 + 59
        /\ PrefixThenAlnum(Take(token, Len(TxtGithubPat) + 22), TxtGithubPat, 22)
        /\ token[Len(TxtGithubPat) + 22 + 1] = "_"
        /\ \A i \in Len(TxtGithubPat) + 22 + 2..Len(token) : IsAlnum(token[i])
     \/ PrefixThenAlnum(token, TxtGho, 36)
     \/ Len(token) = 40 /\ \A i \in 1..Len(token) : IsHex(token[i])

\* import.meta.env.VITE_GITHUB_TOKEN: not set, set to something that is no
\* token, set to a personal access token.
TokenUnset == <<>>
TokenMalformed == <<"t", "o", "k", "e", "n">>
TokenPersonal == TxtGhp \o [i \in 1..36 |-> IF i % 2 = 0 THEN "A" ELSE "7"]

Tokens == {TokenUnset, TokenMalformed, TokenPersonal}

\* What a library function throws: its class and message, or nothing.
Thrown(class, message) == [class |-> class, message |-> message]

NoError == Thrown("none", "")

\* getGitHubToken(): the error it throws for the configured token, if any.
getGitHubToken(token) ==
  IF token = <<>>
  THEN Thrown("Error", "Token GitHub non configuré. Veuillez ajouter VITE_GITHUB_TOKEN dans votre fichier .env.")
  ELSE IF ~isValidGitHubToken(token)
  THEN Thrown("Error", "Format de token GitHub invalide. Le token doit être un token d'accès personnel valide.")
  ELSE NoError

-----------------------------------------------------------------------------
(* lib/github.ts, and the version of it kept in part_008                    *)

\* An HTTP response as the code reads it: status, header X-RateLimit-Remaining
\* being '0', whether the body parses as JSON, and the message of that body.
\* Status 0 stands for a request that fetch() rejects.
Response(status, remaining0, json, message) ==
  [status |-> status, remaining0 |-> remaining0, json |-> json, message |-> message]

OkResponse == Response(200, FALSE, TRUE, "")

NetworkFailure == Response(0, FALSE, FALSE, "")

\* No response at all: null.
NoResponse == Response(-1, FALSE, FALSE, "")

BodyMessages == {"", "Server Error"}

ErrorResponses ==
  {r \in [status : {401, 403, 404, 500}, remaining0 : BOOLEAN, json : BOOLEAN,
          message : BodyMessages] :
     /\ r.remaining0 => r.status = 403
     /\ ~r.json => r.message = ""}

FailureResponses == ErrorResponses \cup {NetworkFailure}

Responses == FailureResponses \cup {OkResponse}

\* handleGitHubResponse(response): what it throws, if anything.
handleGitHubResponse(r) ==
  IF r.status = 200 THEN NoError
  ELSE IF ~r.json THEN Thrown("SyntaxError", "Unexpected token < in JSON at position 0")
  ELSE CASE r.status = 401 ->
              Thrown("GitHubAPIError", "Token GitHub invalide ou expiré. Veuillez vérifier votre configuration.")
         [] r.status = 403 /\ r.remaining0 ->
              Thrown("GitHubAPIError", "Limite d'API GitHub dépassée. Réessayez plus tard.")
         [] r.status = 403 /\ ~r.remaining0 ->
              Thrown("GitHubAPIError", "Accès refusé à l'API GitHub. Vérifiez les permissions de votre token.")
         [] r.status = 404 ->
              Thrown("GitHubAPIError", "Repository ou ressource introuvable. Vérifiez l'URL GitHub.")
         [] OTHER ->
              Thrown("GitHubAPIError",
                     IF r.message # "" THEN r.message ELSE "Erreur API GitHub inconnue")

\* fetch(...).then(handleGitHubResponse): what it throws, if anything.
FetchThenHandle(r) ==
  IF r.status = 0 THEN Thrown("TypeError", "Failed to fetch") ELSE handleGitHubResponse(r)

\* A request sent: its method, what it asks for, the ref it names, and whether
\* it carries an Authorization header.
Request(method, to, ref, auth) ==
  [method |-> method, to |-> to, ref |-> ref, auth |-> auth]

BranchNames == {"main", "master", "development", "dev", "trunk"}

\* The directory listing of the repository.
RepoListing ==
  {[name |-> "package.json", ext |-> "json", dotfile |-> FALSE, big |-> FALSE],
   [name |-> ".env", ext |-> "env", dotfile |-> TRUE, big |-> FALSE],
   [name |-> "README.md", ext |-> "md", dotfile |-> FALSE, big |-> FALSE],
   [name |-> "bundle.js", ext |-> "js", dotfile |-> FALSE, big |-> TRUE],
   [name |-> "src", ext |-> "src", dotfile |-> FALSE, big |-> TRUE]}

\* What the source host answers: to the repository call, with which default
\* branch, on which branches the listing exists, what it answers on the
\* others, and whether /rate_limit can be reached.
ContentWorlds ==
  [repo : Responses, defaultBranch : {"main", "trunk"}, okBranches : SUBSET BranchNames,
   failure : FailureResponses, rateLimit : {"ok", "network"}]

\* The answer to contents/${path}?ref=${branch}
ContentsAt(world, branch) ==
  IF branch \in world.okBranches THEN OkResponse ELSE world.failure

ContentFailed(error, requests) ==
  [ok |-> FALSE, files |-> {}, error |-> error, requests |-> requests]

ContentListed(files, requests) ==
  [ok |-> TRUE, files |-> files, error |-> NoError, requests |-> requests]

\* github.ts, the filter of fetchGitHubContent
KeptByGithubTs(file) ==
  file.name \in {"package.json", ".env", ".env.example", ".env.local", ".env.development",
                 ".env.production", ".env.staging"}

\* github.ts, the catch of fetchGitHubContent
RethrowContentError(e) ==
  IF e.class = "GitHubAPIError" THEN e
  ELSE Thrown("Error", "Erreur lors de la récupération du contenu GitHub")

\* github.ts: fetchGitHubContent(owner, repo)
fetchGitHubContent(token, world) ==
  LET repoReq == Request("GET", "repo", "", TRUE)
      contentsReq == Request("GET", "contents", world.defaultBranch, TRUE)
      tokenError == getGitHubToken(token)
      repoError == FetchThenHandle(world.repo)
      contentsError == FetchThenHandle(ContentsAt(world, world.defaultBranch))
  IN  IF tokenError # NoError
      THEN ContentFailed(RethrowContentError(tokenError), <<>>)
      ELSE IF repoError # NoError
      THEN ContentFailed(RethrowContentError(repoError), <<repoReq>>)
      ELSE IF contentsError # NoError
      THEN ContentFailed(RethrowContentError(contentsError), <<repoReq, contentsReq>>)
      ELSE ContentListed({f \in RepoListing : KeptByGithubTs(f)}, <<repoReq, contentsReq>>)

\* part_008, the filter of fetchGitHubContent
KeptByPart008(file) ==
  \/ /\ file.ext \in {"md", "ts", "tsx", "js", "jsx", "json", "css", "scss", "less"}
     /\ ~file.dotfile
     /\ ~file.big
  \/ file.name \in {"package.json", "tsconfig.json", "vite.config.ts", "tailwind.config.js",
                    "postcss.config.js", "eslint.config.js", ".eslintrc.js", ".eslintrc.json",
                    ".prettierrc.js", ".prettierrc.json"}

\* part_008: const branchesToTry = [defaultBranch, 'main', 'master', 'development', 'dev']
branchesToTry(defaultBranch) == <<defaultBranch, "main", "master", "development", "dev">>

\* part_008: the loop over branchesToTry; acc holds response, lastError and
\* the requests sent so far.
RECURSIVE TryBranches(_, _, _, _)
TryBranches(world, auth, branches, acc) ==
  IF branches = <<>> THEN acc
  ELSE LET r == ContentsAt(world, Head(branches))
           sent == Append(acc.requests, Request("GET", "contents", Head(branches), auth))
       IN  IF r.status = 0
           THEN TryBranches(world, auth, Tail(branches),
                            [acc EXCEPT !.lastError = r, !.requests = sent])
           ELSE IF r.status = 200
           THEN [response |-> r, lastError |-> acc.lastError, requests |-> sent]
           ELSE TryBranches(world, auth, Tail(branches),
                            [response |-> r, lastError |-> r, requests |-> sent])

\* part_008: response.statusText
StatusText(r) ==
  CASE r.status = 401 -> "Unauthorized"
    [] r.status = 403 -> "Forbidden"
    [] r.status = 404 -> "Not Found"
    [] r.status = 500 -> "Internal Server Error"
    [] OTHER -> ""

\* part_008: what is thrown once no branch has given the listing.
NoBranchError(world, defaultBranch, lastError) ==
  CASE lastError.status = 404 ->
         IF defaultBranch = "main"
         THEN Thrown("Error", "Repository ou chemin introuvable (branches testées: main, main, master, development, dev). Vérifiez l'URL GitHub du projet.")
         ELSE Thrown("Error", "Repository ou chemin introuvable (branches testées: trunk, main, master, development, dev). Vérifiez l'URL GitHub du projet.")
    [] lastError.status = 403 ->
         IF world.rateLimit = "network" THEN Thrown("TypeError", "Failed to fetch")
         ELSE IF lastError.remaining0
         THEN Thrown("Error", "Limite d'API GitHub dépassée. Réessayez plus tard ou configurez un token GitHub valide.")
         ELSE Thrown("Error", "Accès refusé à l'API GitHub. Vérifiez votre token GitHub.")
    [] OTHER ->
         CASE StatusText(lastError) = "Unauthorized" -> Thrown("Error", "Erreur API GitHub: Unauthorized")
           [] StatusText(lastError) = "Internal Server Error" ->
                Thrown("Error", "Erreur API GitHub: Internal Server Error")
           [] OTHER -> Thrown("Error", "Erreur API GitHub: Erreur inconnue")

\* part_008: fetchGitHubContent(owner, repo)
fetchGitHubContentPart008(token, world) ==
  LET auth == token # <<>>
      repoReq == Request("GET", "repo", "", auth)
      defaultBranch == IF world.repo.status = 200 THEN world.defaultBranch ELSE "main"
      tried == TryBranches(world, auth, branchesToTry(defaultBranch),
                           [response |-> NoResponse, lastError |-> NoResponse,
                            requests |-> <<repoReq>>])
      rateReq == Request("GET", "rate_limit", "", auth)
  IN  IF tried.response.status = 200
      THEN ContentListed({f \in RepoListing : KeptByPart008(f)}, tried.requests)
      ELSE ContentFailed(NoBranchError(world, defaultBranch, tried.lastError),
                         IF tried.lastError.status = 403
                         THEN Append(tried.requests, rateReq) ELSE tried.requests)

GitHubVariants == {"github.ts", "part_008"}

\* fetchGitHubContent is called with a configured token against a source host.
FetchGitHubContentCall ==
  /\ libCall = NoCall
  /\ \E variant \in GitHubVariants, token \in Tokens, world \in ContentWorlds :
       libCall' = [pc |-> "ended", fn |-> "fetchGitHubContent", variant |-> variant,
                   token |-> token, world |-> world,
                   result |-> IF variant = "github.ts"
                              THEN fetchGitHubContent(token, world)
                              ELSE fetchGitHubContentPart008(token, world)]
  /\ UNCHANGED <<backendVars, pageVars, detailVars, taskVars, versionVars, depVars,
                 envSyncVars, envParseVars, urlVars, requestVars, dialogVars>>

\* ---- fetchFileContent

\* part_008: const urlsToTry: the url given and five rewritings of it.
UrlForms == 1..6

\* part_008: const branchesToTry = ['main', 'master', 'development', 'dev']
fileBranchesToTry == <<"main", "master", "development", "dev">>

\* The branch that the download_url of a listed file names.
UrlBranch == "main"

\* What the source host answers for a file: under which forms of the url and
\* on which branches it is served, what is answered otherwise, whether its
\* content is blank, and whether /rate_limit can be reached.
FileWorlds ==
  [okForms : SUBSET {1, 2}, okBranches : SUBSET {"main", "master", "development", "dev"},
   failure : FailureResponses, content : {"text", "blank"}, rateLimit : {"ok", "network"}]

FileAt(world, form, branch) ==
  IF form \in world.okForms /\ branch \in world.okBranches THEN OkResponse ELSE world.failure

FileFailed(error, requests) ==
  [ok |-> FALSE, content |-> "", error |-> error, requests |-> requests]

FileRead(content, requests) ==
  [ok |-> TRUE, content |-> content, error |-> NoError, requests |-> requests]

\* github.ts, the catch of fetchFileContent
RethrowFileError(e) ==
  IF e.class = "GitHubAPIError" THEN e
  ELSE Thrown("Error", "Erreur lors de la récupération du fichier")

\* if (!content.trim()) throw new Error('Le fichier est vide')
EmptyFileError == Thrown("Error", "Le fichier est vide")

\* github.ts: fetchFileContent(url)
fetchFileContent(token, world) ==
  LET fileReq == Request("GET", "file", "", TRUE)
      tokenError == getGitHubToken(token)
      fileError == FetchThenHandle(FileAt(world, 1, UrlBranch))
  IN  IF tokenError # NoError THEN FileFailed(RethrowFileError(tokenError), <<>>)
      ELSE IF fileError # NoError THEN FileFailed(RethrowFileError(fileError), <<fileReq>>)
      ELSE IF world.content = "blank"
      THEN FileFailed(RethrowFileError(EmptyFileError), <<fileReq>>)
      ELSE FileRead(world.content, <<fileReq>>)

\* part_008: every url form with every branch, in the order of the two loops.
FileAttempts ==
  [k \in 1..(6 * Len(fileBranchesToTry)) |->
     [form |-> ((k - 1) \div Len(fileBranchesToTry)) + 1,
      branch |-> fileBranchesToTry[((k - 1) % Len(fileBranchesToTry)) + 1]]]

\* part_008: the two loops of fetchFileContent; acc holds response, lastError
\* and the requests sent so far.
RECURSIVE TryFileAttempts(_, _, _, _)
TryFileAttempts(world, auth, attempts, acc) ==
  IF attempts = <<>> THEN acc
  ELSE LET a == Head(attempts)
           r == FileAt(world, a.form, a.branch)
           head == Request("HEAD", a.form, a.branch, auth)
           get == Request("GET", a.form, a.branch, auth)
       IN  IF r.status = 0
           THEN TryFileAttempts(world, auth, Tail(attempts),
                                [acc EXCEPT !.lastError = r,
                                            !.requests = Append(acc.requests, head)])
           ELSE IF r.status = 200
           THEN [response |-> r, lastError |-> acc.lastError,
                 requests |-> acc.requests \o <<head, get>>]
           ELSE TryFileAttempts(world, auth, Tail(attempts),
                                [acc EXCEPT !.lastError = IF acc.response # NoResponse
                                                          THEN acc.response ELSE r,
                                            !.requests = Append(acc.requests, head)])

\* part_008: what is thrown once no attempt has given the file.
NoFileError(world, lastError) ==
  CASE lastError.status = 404 ->
         Thrown("Error", "Fichier introuvable. Vérifiez que le fichier existe dans le repository.")
    [] lastError.status = 403 ->
         IF world.rateLimit = "network" THEN Thrown("TypeError", "Failed to fetch")
         ELSE IF lastError.remaining0
         THEN Thrown("Error", "Limite d'API GitHub dépassée. Réessayez plus tard ou configurez un token GitHub valide.")
         ELSE Thrown("Error", "Accès refusé à l'API GitHub. Vérifiez votre token GitHub.")
    [] OTHER ->
         CASE StatusText(lastError) = "Unauthorized" ->
                Thrown("Error", "Erreur lors de la récupération du fichier: Unauthorized")
           [] StatusText(lastError) = "Internal Server Error" ->
                Thrown("Error", "Erreur lors de la récupération du fichier: Internal Server Error")
           [] OTHER -> Thrown("Error", "Erreur lors de la récupération du fichier: Erreur inconnue")

\* part_008: fetchFileContent(url)
fetchFileContentPart008(token, world) ==
  LET auth == token # <<>>
      tried == TryFileAttempts(world, auth, FileAttempts,
                               [response |-> NoResponse, lastError |-> NoResponse,
                                requests |-> <<>>])
      rateReq == Request("GET", "rate_limit", "", auth)
  IN  IF tried.response.status # 200
      THEN FileFailed(NoFileError(world, tried.lastError),
                      IF tried.lastError.status = 403
                      THEN Append(tried.requests, rateReq) ELSE tried.requests)
      ELSE IF world.content = "blank" THEN FileFailed(EmptyFileError, tried.requests)
      ELSE FileRead(world.content, tried.requests)

\* fetchFileContent is called with a configured token against a source host.
FetchFileContentCall ==
  /\ libCall = NoCall
  /\ \E variant \in GitHubVariants, token \in Tokens, world \in FileWorlds :
       libCall' = [pc |-> "ended", fn |-> "fetchFileContent", variant |-> variant,
                   token |-> token, world |-> world,
                   result |-> IF variant = "github.ts"
                              THEN fetchFileContent(token, world)
                              ELSE fetchFileContentPart008(token, world)]
  /\ UNCHANGED <<backendVars, pageVars, detailVars, taskVars, versionVars, depVars,
                 envSyncVars, envParseVars, urlVars, requestVars, dialogVars>>

-----------------------------------------------------------------------------
(* lib/api-config.ts: validateEnvConfig                                     *)

\* The keys of envSchema, in the order of its shape.
EnvSchemaKeys ==
  <<"VITE_GITHUB_TOKEN", "VITE_OPENAI_API_KEY", "VITE_SUPABASE_URL", "VITE_SUPABASE_ANON_KEY">>

TxtA == <<"a">>
TxtSupabaseUrl == TxtHttps \o <<"a", ".", "c", "o">>
TxtNoScheme == <<"a", ".", "c", "o">>
TxtMailto == <<"x", ":", "y">>

\* The schemes whose urls must name a host.
SpecialSchemes == {<<"h", "t", "t", "p">>, <<"h", "t", "t", "p", "s">>, <<"w", "s">>,
                   <<"w", "s", "s">>, <<"f", "t", "p">>}

IsLetter(c) == \E i \in 1..Len(LowerLetters) : LowerLetters[i] = LowerOf(c)

\* new URL(s) does not throw: a scheme, a colon, and for the special schemes
\* a host after the slashes.
ParsesAsUrl(s) ==
  \E k \in 1..Len(s) :
    /\ s[k] = ":"
    /\ \A j \in 1..(k - 1) : s[j] # ":"
    /\ k > 1
    /\ IsLetter(s[1])
    /\ \A j \in 2..(k - 1) : IsAlnum(s[j]) \/ s[j] \in {"+", "-", "."}
    /\ ToLower(SubSeq(s, 1, k - 1)) \in SpecialSchemes =>
         \E h \in (k + 1)..Len(s) :
           /\ \A j \in (k + 1)..(h - 1) : s[j] \in {"/", "\\"}
           /\ s[h] \notin {"/", "\\", "?", "#", ":"}

\* z.string().min(1, ...): the value is a string of at least one character.
PassesStringMin1(v) == v # Unset /\ Len(v) >= 1

\* z.string().url(...): the value is a string that new URL accepts.
PassesStringUrl(v) == v # Unset /\ ParsesAsUrl(v)

\* envSchema: whether the value under a key passes the key's check.
PassesEnvSchema(key, v) ==
  IF key = "VITE_SUPABASE_URL" THEN PassesStringUrl(v) ELSE PassesStringMin1(v)

\* import.meta.env, as far as envSchema reads it.
EnvConfigs ==
  [VITE_GITHUB_TOKEN : {Unset, <<>>, TokenPersonal},
   VITE_OPENAI_API_KEY : {Unset, <<>>, TxtA},
   VITE_SUPABASE_URL : {Unset, <<>>, TxtNoScheme, TxtHttps, TxtMailto, TxtSupabaseUrl},
   VITE_SUPABASE_ANON_KEY : {Unset, <<>>, TxtA}]

\* error.errors.map(e => e.path.join('.')): the keys that failed, in the
\* order of the schema.
ZodErrorPaths(env) == SelectSeq(EnvSchemaKeys, LAMBDA key : ~PassesEnvSchema(key, env[key]))

\* validateEnvConfig(): the parsed config, or the one Error thrown, with the
\* variables that its message names.
validateEnvConfig(env) ==
  IF ZodErrorPaths(env) = <<>>
  THEN [ok |-> TRUE, config |-> env, error |-> NoError, named |-> <<>>]
  ELSE [ok |-> FALSE, config |-> env,
        error |-> Thrown("Error", "Variables d'environnement manquantes ou invalides : ${missingVars}. Veuillez vérifier votre fichier .env."),
        named |-> ZodErrorPaths(env)]

\* validateEnvConfig is called under some environment.
ValidateEnvConfigCall ==
  /\ libCall = NoCall
  /\ \E env \in EnvConfigs :
       libCall' = [pc |-> "ended", fn |-> "validateEnvConfig", env |-> env,
                   result |-> validateEnvConfig(env)]
  /\ UNCHANGED <<backendVars, pageVars, detailVars, taskVars, versionVars, depVars,
                 envSyncVars, envParseVars, urlVars, requestVars, dialogVars>>

-----------------------------------------------------------------------------
(* lib/openai.ts: generateDocumentation, in the four versions the file holds *)

TxtSk == <<"s", "k", "-">>

\* /^sk-[a-zA-Z0-9]{48}$/.test(key)
isValidOpenAIKey(key) ==
  /\ key # Unset
  /\ Len(key) = 51
  /\ Take(key, 3) = TxtSk
  /\ \A i \in 4..51 : IsAlnum(key[i])

KeyValid == TxtSk \o [i \in 1..48 |-> IF i % 2 = 0 THEN "b" ELSE "4"]
KeyMalformed == TxtSk \o <<"x">>

\* import.meta.env.VITE_OPENAI_API_KEY
OpenAIKeys == {Unset, <<>>, KeyMalformed, KeyValid}

\* if (!key)
Falsy(v) == v = Unset \/ v = <<>>

\* getOpenAIKey(): what it throws, if anything.
getOpenAIKey(key) ==
  IF Falsy(key)
  THEN Thrown("Error", "Clé API OpenAI non configurée. Veuillez ajouter VITE_OPENAI_API_KEY dans votre fichier .env.")
  ELSE IF ~isValidOpenAIKey(key)
  THEN Thrown("Error", "Format de clé API OpenAI invalide. La clé doit commencer par \"sk-\" suivi de caractères alphanumériques.")
  ELSE NoError

\* The versions of generateDocumentation, by the line where each starts.
OpenAIVersions == {"openai.ts:56", "openai.ts:255", "openai.ts:392", "openai.ts:549"}

\* What one call of chat.completions.create gives: markdown, an empty
\* content, or a rejection.
CompletionOutcomes == {"markdown", "empty", "rejects"}

\* The outcomes of the first and of the second completion call; the API
\* rejects a key that is not a key.
AIWorlds(key) ==
  IF isValidOpenAIKey(key) THEN [1..2 -> CompletionOutcomes] ELSE {[i \in 1..2 |-> "rejects"]}

\* The files handed to generateDocumentation.
DocFiles == {{"package.json"}, {"README.md"}, {"package.json", "README.md"}}

Returned(kind, parts, calls) ==
  [threw |-> FALSE, kind |-> kind, parts |-> parts, error |-> NoError, calls |-> calls]

Rejected(error, calls) ==
  [threw |-> TRUE, kind |-> "none", parts |-> <<>>, error |-> error, calls |-> calls]

APIError == Thrown("APIConnectionError", "Connection error.")

\* Whether the version holds a client for the key: createOpenAIClient, or the
\* module's const openai.
HasClient(version, key) ==
  CASE version = "openai.ts:56" -> getOpenAIKey(key) = NoError
    [] version = "openai.ts:255" -> ~Falsy(key)
    [] version = "openai.ts:392" -> getOpenAIKey(key) = NoError
    [] OTHER -> ~Falsy(key)

\* openai.ts line 56: generateDocumentation(projectData, fileContent)
generateDocumentation56(key, ai) ==
  IF ~HasClient("openai.ts:56", key) THEN Returned("template", <<>>, 0)
  ELSE CASE ai[1] = "rejects" -> Returned("errorTemplate", <<"Connection error.">>, 1)
         [] ai[1] = "empty" -> Returned("errorTemplate", <<"L'IA n'a pas généré de contenu">>, 1)
         [] OTHER -> Returned("generated", <<"markdown">>, 1)

\* throw new Error(`Erreur de génération de la documentation: ${error.message}`)
GenerationError(e) ==
  CASE e.message = "Connection error." ->
         Thrown("Error", "Erreur de génération de la documentation: Connection error.")
    [] OTHER ->
         Thrown("Error", "Erreur de génération de la documentation: OpenAI API key not configured. Please add VITE_OPENAI_API_KEY to your environment variables.")

\* The technical documentation, then the user manual.
TwoCompletions(ai) ==
  CASE ai[1] = "rejects" -> Rejected(GenerationError(APIError), 1)
    [] ai[1] # "rejects" /\ ai[2] = "rejects" -> Rejected(GenerationError(APIError), 2)
    [] OTHER -> Returned("generated", <<IF ai[1] = "empty" THEN "" ELSE "markdown",
                                        IF ai[2] = "empty" THEN "" ELSE "markdown">>, 2)

\* openai.ts line 255: generateDocumentation(files)
generateDocumentation255(key, ai) ==
  IF ~HasClient("openai.ts:255", key)
  THEN Rejected(GenerationError(Thrown("Error", "OpenAI API key not configured. Please add VITE_OPENAI_API_KEY to your environment variables.")), 0)
  ELSE TwoCompletions(ai)

\* openai.ts line 392: generateDocumentation(files)
generateDocumentation392(key, ai) ==
  IF ~HasClient("openai.ts:392", key) THEN Returned("template", <<>>, 0)
  ELSE TwoCompletions(ai)

\* openai.ts line 549: generateDocumentation(files), in a module that throws
\* when it is loaded without a key.
generateDocumentation549(key, ai) ==
  IF ~HasClient("openai.ts:549", key)
  THEN Rejected(Thrown("Error", "VITE_OPENAI_API_KEY environment variable is missing"), 0)
  ELSE IF ai[1] = "rejects" THEN Rejected(GenerationError(APIError), 1)
  ELSE Returned("generated", <<IF ai[1] = "empty" THEN "" ELSE "markdown">>, 1)

generateDocumentation(version, key, ai) ==
  CASE version = "openai.ts:56" -> generateDocumentation56(key, ai)
    [] version = "openai.ts:255" -> generateDocumentation255(key, ai)
    [] version = "openai.ts:392" -> generateDocumentation392(key, ai)
    [] OTHER -> generateDocumentation549(key, ai)

\* generateDocumentation is called under some key, with some files, against
\* some answers of the completion API.
GenerateDocumentationCall ==
  /\ libCall = NoCall
  /\ \E version \in OpenAIVersions, key \in OpenAIKeys, files \in DocFiles :
       \E ai \in AIWorlds(key) :
         libCall' = [pc |-> "ended", fn |-> "generateDocumentation", version |-> version,
                     key |-> key, files |-> files, ai |-> ai,
                     result |-> generateDocumentation(version, key, ai)]
  /\ UNCHANGED <<backendVars, pageVars, detailVars, taskVars, versionVars, depVars,
                 envSyncVars, envParseVars, urlVars, requestVars, dialogVars>>

-----------------------------------------------------------------------------
(* ProjectConfigDialog.tsx: detectStackFromGitHub, the mapping to a stack   *)

\* const techMapping, as Object.entries gives it: pattern, then label.
techMapping ==
  << <<<<"r", "e", "a", "c", "t">>, "React">>,
     <<<<"v", "u", "e">>, "Vue.js">>,
     <<<<"a", "n", "g", "u", "l", "a", "r">>, "Angular">>,
     <<<<"n", "e", "x", "t">>, "Next.js">>,
     <<<<"n", "u", "x", "t">>, "Nuxt.js">>,
     <<<<"t", "y", "p", "e", "s", "c", "r", "i", "p", "t">>, "TypeScript">>,
     <<<<"t", "a", "i", "l", "w", "i", "n", "d", "c", "s", "s">>, "Tailwind CSS">>,
     <<<<"e", "x", "p", "r", "e", "s", "s">>, "Express">>,
     <<<<"n", "e", "s", "t", "j", "s">>, "NestJS">>,
     <<<<"@", "s", "u", "p", "a", "b", "a", "s", "e", "/", "s", "u", "p", "a", "b", "a", "s", "e", "-", "j", "s">>, "Supabase">>,
     <<<<"f", "i", "r", "e", "b", "a", "s", "e">>, "Firebase">>,
     <<<<"m", "o", "n", "g", "o", "d", "b">>, "MongoDB">>,
     <<<<"m", "y", "s", "q", "l", "2">>, "MySQL">>,
     <<<<"p", "g">>, "PostgreSQL">>,
     <<<<"v", "i", "t", "e">>, "Vite">>,
     <<<<"w", "e", "b", "p", "a", "c", "k">>, "Webpack">>,
     <<<<"j", "e", "s", "t">>, "Jest">>,
     <<<<"v", "i", "t", "e", "s", "t">>, "Vitest">>,
     <<<<"c", "y", "p", "r", "e", "s", "s">>, "Cypress">>,
     <<<<"p", "l", "a", "y", "w", "r", "i", "g", "h", "t">>, "Playwright">>,
     <<<<"s", "t", "o", "r", "y", "b", "o", "o", "k">>, "Storybook">>,
     <<<<"g", "r", "a", "p", "h", "q", "l">>, "GraphQL">>,
     <<<<"a", "p", "o", "l", "l", "o">>, "Apollo">>,
     <<<<"p", "r", "i", "s", "m", "a">>, "Prisma">>,
     <<<<"s", "e", "q", "u", "e", "l", "i", "z", "e">>, "Sequelize">>,
     <<<<"t", "y", "p", "e", "o", "r", "m">>, "TypeORM">>,
     <<<<"r", "e", "d", "u", "x">>, "Redux">>,
     <<<<"m", "o", "b", "x">>, "MobX">>,
     <<<<"z", "u", "s", "t", "a", "n", "d">>, "Zustand">>,
     <<<<"j", "o", "t", "a", "i">>, "Jotai">>,
     <<<<"r", "e", "c", "o", "i", "l">>, "Recoil">>,
     <<<<"s", "t", "y", "l", "e", "d", "-", "c", "o", "m", "p", "o", "n", "e", "n", "t", "s">>, "Styled Components">>,
     <<<<"e", "m", "o", "t", "i", "o", "n">>, "Emotion">>,
     <<<<"s", "a", "s", "s">>, "Sass">>,
     <<<<"l", "e", "s", "s">>, "Less">>,
     <<<<"p", "o", "s", "t", "c", "s", "s">>, "PostCSS">>,
     <<<<"e", "s", "l", "i", "n", "t">>, "ESLint">>,
     <<<<"p", "r", "e", "t", "t", "i", "e", "r">>, "Prettier">>,
     <<<<"b", "a", "b", "e", "l">>, "Babel">>,
     <<<<"s", "w", "c">>, "SWC">>,
     <<<<"e", "s", "b", "u", "i", "l", "d">>, "esbuild">>,
     <<<<"r", "o", "l", "l", "u", "p">>, "Rollup">>,
     <<<<"p", "a", "r", "c", "e", "l">>, "Parcel">>,
     <<<<"d", "o", "c", "k", "e", "r">>, "Docker">>,
     <<<<"k", "u", "b", "e", "r", "n", "e", "t", "e", "s">>, "Kubernetes">>,
     <<<<"a", "w", "s", "-", "s", "d", "k">>, "AWS SDK">>,
     <<<<"a", "x", "i", "o", "s">>, "Axios">>,
     <<<<"s", "o", "c", "k", "e", "t", ".", "i", "o">>, "Socket.IO">>,
     <<<<"w", "e", "b", "s", "o", "c", "k", "e", "t">>, "WebSocket">>,
     <<<<"t", "h", "r", "e", "e">>, "Three.js">>,
     <<<<"p", "i", "x", "i", ".", "j", "s">>, "PixiJS">>,
     <<<<"p", "h", "a", "s", "e", "r">>, "Phaser">>,
     <<<<"t", "e", "n", "s", "o", "r", "f", "l", "o", "w">>, "TensorFlow">>,
     <<<<"p", "y", "t", "o", "r", "c", "h">>, "PyTorch">>,
     <<<<"o", "p", "e", "n", "c", "v">>, "OpenCV">>,
     <<<<"f", "f", "m", "p", "e", "g">>, "FFmpeg">>,
     <<<<"s", "h", "a", "r", "p">>, "Sharp">>,
     <<<<"i", "m", "a", "g", "e", "m", "a", "g", "i", "c", "k">>, "ImageMagick">>,
     <<<<"p", "d", "f", "-", "l", "i", "b">>, "PDF Lib">>,
     <<<<"p", "u", "p", "p", "e", "t", "e", "e", "r">>, "Puppeteer">>,
     <<<<"s", "e", "l", "e", "n", "i", "u", "m">>, "Selenium">>,
     <<<<"e", "l", "e", "c", "t", "r", "o", "n">>, "Electron">>,
     <<<<"t", "a", "u", "r", "i">>, "Tauri">>,
     <<<<"c", "a", "p", "a", "c", "i", "t", "o", "r">>, "Capacitor">>,
     <<<<"c", "o", "r", "d", "o", "v", "a">>, "Cordova">>,
     <<<<"r", "e", "a", "c", "t", "-", "n", "a", "t", "i", "v", "e">>, "React Native">>,
     <<<<"f", "l", "u", "t", "t", "e", "r">>, "Flutter">>,
     <<<<"i", "o", "n", "i", "c">>, "Ionic">>,
     <<<<"n", "a", "t", "i", "v", "e", "s", "c", "r", "i", "p", "t">>, "NativeScript">> >>

\* s.includes(p)
Includes(s, p) ==
  \E i \in 0..(Len(s) - Len(p)) : SubSeq(s, i + 1, i + Len(p)) = p

\* The for loop over Object.entries(techMapping) from entry j on: the label
\* of the first entry whose pattern the name includes, "null" when none does.
RECURSIVE FirstMatchFrom(_, _)
FirstMatchFrom(dep, j) ==
  IF j > Len(techMapping) THEN "null"
  ELSE IF Includes(ToLower(dep), ToLower(techMapping[j][1])) THEN techMapping[j][2]
  ELSE FirstMatchFrom(dep, j + 1)

\* The label of the last entry whose pattern the name includes.
FirstMatchLast(dep) ==
  LET hits == {j \in 1..Len(techMapping) :
                 Includes(ToLower(dep), ToLower(techMapping[j][1]))}
  IN  IF hits = {} THEN "null"
      ELSE techMapping[CHOOSE j \in hits : \A k \in hits : k <= j][2]

FirstMatch(dep) == FirstMatchFrom(dep, 1)

\* dependencies.map(...).filter(tech => tech !== null)
detectedTech(names) ==
  SelectSeq([i \in 1..Len(names) |-> FirstMatch(names[i])],
            LAMBDA tech : tech # "null")

\* Array.from(new Set(s)): s without the repetitions of an earlier element.
RECURSIVE UniqueFrom(_, _, _)
UniqueFrom(s, i, acc) ==
  IF i > Len(s) THEN acc
  ELSE IF \E k \in 1..Len(acc) : acc[k] = s[i] THEN UniqueFrom(s, i + 1, acc)
  ELSE UniqueFrom(s, i + 1, Append(acc, s[i]))

\* The labels that setValue('stack', uniqueTech.join(', ')) writes, in order.
uniqueTech(names) == UniqueFrom(detectedTech(names), 1, <<>>)

TxtReactDom == <<"R", "e", "a", "c", "t", "-", "D", "O", "M">>
TxtReactNative == <<"r", "e", "a", "c", "t", "-", "n", "a", "t", "i", "v", "e">>
TxtVitest == <<"v", "i", "t", "e", "s", "t">>
TxtLodash == <<"l", "o", "d", "a", "s", "h">>
TxtNestCore == <<"@", "n", "e", "s", "t", "j", "s", "/", "c", "o", "r", "e">>

\* The names that a package.json declares, of which the stack is detected.
StackDepNames == {TxtReactDom, TxtReactNative, TxtVitest, TxtLodash, TxtNestCore}

MaxStackDeps == 3

\* The stack is detected for the names of some package.json.
DetectStackCall ==
  /\ libCall = NoCall
  /\ \E n \in 0..MaxStackDeps :
       \E names \in [1..n -> StackDepNames] :
         libCall' = [pc |-> "ended", fn |-> "detectStack", dependencies |-> names,
                     result |-> uniqueTech(names)]
  /\ UNCHANGED <<backendVars, pageVars, detailVars, taskVars, versionVars, depVars,
                 envSyncVars, envParseVars, urlVars, requestVars, dialogVars>>

-----------------------------------------------------------------------------
(* ProjectConfigDialog.tsx: the github_url field and detectStackFromGitHub  *)

\* The values the github_url field is given; "" is the empty field.
GithubUrls == {"", "https://github.com/acme/widget", "https://github.com/org/lib"}

\* The keys of dependencies and devDependencies in the package.json of the
\* repository at each URL.
RepoDependencies(url) ==
  IF url = "https://github.com/acme/widget" THEN <<TxtReactDom>>
  ELSE <<TxtVitest, TxtLodash>>

\* What a detection comes to once it has a repository to read.
DetectOutcomes == {"noContents", "noPackageJson", "badJson", "detected"}

\* githubError when there is none.
NoGithubError == "null"

DetectError(outcome) ==
  CASE outcome = "noContents" ->
         "Impossible d'accéder au contenu du repository. Vérifiez l'URL et les permissions."
    [] outcome = "noPackageJson" ->
         "Impossible de trouver le fichier package.json dans le repository"
    [] outcome = "badJson" ->
         "Erreur lors de la lecture du package.json. Vérifiez que le fichier est valide."
    [] OTHER -> NoGithubError

\* The stack field after a detection of url with this outcome: uniqueTech
\* (joined by ', ', here kept as the list), 'JavaScript', or what it was.
StackAfter(stack, url, outcome) ==
  CASE outcome = "detected" -> uniqueTech(RepoDependencies(url))
    [] outcome = "noPackageJson" -> <<"JavaScript">>
    [] OTHER -> stack

DialogInit ==
  /\ stackForm = [github_url |-> "", stack |-> <<>>, loadingStack |-> FALSE,
                  githubError |-> NoGithubError]
  /\ detections = <<>>

\* The github_url field changes: useEffect calls detectStackFromGitHub when
\* the field is not empty, which runs up to its first await. parseGitHubUrl
\* accepts the URL or returns null.
GithubUrlChange ==
  /\ Len(detections) < MaxInFlight
  /\ \E url \in GithubUrls \ {stackForm.github_url}, parsed \in BOOLEAN :
       IF url = ""
       THEN /\ stackForm' = [stackForm EXCEPT !.github_url = url]
            /\ detections' = detections
       ELSE IF ~parsed
       THEN /\ stackForm' = [stackForm EXCEPT
                               !.github_url = url,
                               !.loadingStack = FALSE,
                               !.githubError = "URL GitHub invalide. Format attendu: https://github.com/owner/repo"]
            /\ detections' = detections
       ELSE /\ stackForm' = [stackForm EXCEPT !.github_url = url, !.loadingStack = TRUE,
                                              !.githubError = NoGithubError]
            /\ detections' = Append(detections, [url |-> url])
  /\ UNCHANGED <<backendVars, pageVars, detailVars, taskVars, versionVars, depVars,
                 envSyncVars, envParseVars, urlVars, requestVars, libCall>>

\* A detectStackFromGitHub in flight runs to its end: setValue('stack', ...)
\* or setGithubError, then setLoadingStack(false).
DetectStackReturn ==
  /\ \E i \in 1..Len(detections), outcome \in DetectOutcomes :
       /\ stackForm' = [stackForm EXCEPT
                          !.stack = StackAfter(@, detections[i].url, outcome),
                          !.githubError = IF outcome = "detected" THEN @
                                          ELSE DetectError(outcome),
                          !.loadingStack = FALSE]
       /\ detections' = RemoveAt(detections, i)
  /\ UNCHANGED <<backendVars, pageVars, detailVars, taskVars, versionVars, depVars,
                 envSyncVars, envParseVars, urlVars, requestVars, libCall>>

-----------------------------------------------------------------------------
(* Specifications                                                           *)

\* Every section at rest, nothing displayed.
SectionsIdle ==
  /\ libCall = NoCall
  /\ DialogInit
  /\ insertSent = NoCall
  /\ TaskInit
  /\ VersionInit
  /\ DepInit
  /\ EnvSyncInit

InitEnvParse == BackendInit /\ PageInit /\ SectionsIdle /\ UrlIdle /\ EnvParseInit

NextEnvParse == ParseEnvFileStep \/ ReparseEnvStep

\* parseEnvFile applied to every text over EnvAlphabet up to MaxEnvLen.
SpecEnvParse == InitEnvParse /\ [][NextEnvParse]_vars

InitUrl == BackendInit /\ PageInit /\ SectionsIdle /\ EnvParseIdle /\ UrlInit

NextUrl == EnvMatchUrlStep \/ CfgMatchUrlStep \/ NoUrlStep

\* The two URL matches applied to every text UrlPartsSet writes.
SpecUrl == InitUrl /\ [][NextUrl]_vars

InitTasks == BackendInit /\ PageInit /\ SectionsIdle /\ EnvParseIdle /\ UrlIdle


InitVersions == BackendInit /\ PageInit /\ SectionsIdle /\ EnvParseIdle /\ UrlIdle

NextVersions ==
  \/ VersionSubmitBegin \/ VersionUploadReturn \/ VersionInsertReturn
  \/ VersionDeleteClick \/ VersionRemoveReturn \/ VersionRowDeleteReturn

\* VersionsSection on one project.
SpecVersions == InitVersions /\ [][NextVersions]_vars

InitPage == BackendInit /\ PageInit /\ SectionsIdle /\ UrlIdle /\ EnvParseIdle

NextDeps ==
  \/ DepOnSubmit
  \/ DepSyncBegin
  \/ DepSyncDeleteReturn
  \/ DepSyncInsertReturn

\* The dependencies of a project: added by hand and synchronised with a manifest.
SpecDeps == InitPage /\ [][NextDeps]_vars

NextDepCheck ==
  \/ DepOnSubmit
  \/ DepCheckBegin
  \/ DepCheckReturn

\* The dependencies of a project: added by hand and checked against the registry.
SpecDepCheck == InitPage /\ [][NextDepCheck]_vars

NextDepEdit ==
  \/ DepOnSubmit
  \/ DepEditSubmit
  \/ DepCheckBegin
  \/ DepCheckReturn

\* The dependencies of a project added by hand, edited and checked for updates.
SpecDepEdit == InitPage /\ [][NextDepEdit]_vars

NextEnvSync == EnvSyncBegin \/ EnvSyncInsertReturn

\* The environments of a project synchronised with its repository.
SpecEnvSync == InitPage /\ [][NextEnvSync]_vars

NextEnvWrites == EnvOnSubmit \/ EnvSyncBegin \/ EnvSyncInsertReturn

\* The environments of a project written by the form and by the sync.
SpecEnvWrites == InitPage /\ [][NextEnvWrites]_vars

NextProject ==
  \/ TaskOnSubmit
  \/ NoteOnSubmit
  \/ DocOnSubmit
  \/ DepOnSubmit
  \/ EnvOnSubmit
  \/ VersionSubmitBegin \/ VersionUploadReturn \/ VersionInsertReturn
  \/ DeleteProject

\* A project page filled through its sections, then the project deleted.
SpecProject == InitPage /\ [][NextProject]_vars

NextContent == FetchGitHubContentCall

\* fetchGitHubContent against every answer of the source host.
SpecContent == InitPage /\ [][NextContent]_vars

NextFile == FetchFileContentCall

\* fetchFileContent against every answer of the source host.
SpecFile == InitPage /\ [][NextFile]_vars

NextEnvConfig == ValidateEnvConfigCall

\* validateEnvConfig under every environment.
SpecEnvConfig == InitPage /\ [][NextEnvConfig]_vars

NextDocGen == GenerateDocumentationCall

\* generateDocumentation under every key and every answer of the API.
SpecDocGen == InitPage /\ [][NextDocGen]_vars

NextStack == DetectStackCall

\* The stack detected for every list of names up to MaxStackDeps.
SpecStack == InitPage /\ [][NextStack]_vars

NextDialog == GithubUrlChange \/ DetectStackReturn

\* The github_url field of the configuration dialog edited, detections in flight.
SpecDialog == InitPage /\ [][NextDialog]_vars

NextTasks == TaskOnSubmit \/ TaskStatusClick \/ TaskUpdateReturn \/ TaskFetchReturn

\* TasksSection on one project.
SpecTasks == InitTasks /\ [][NextTasks]_vars

-----------------------------------------------------------------------------
(* Claims                                                                   *)

\* The shapes spec section 4.1 lists as accepted.
UrlValidShape(p) ==
  /\ p.host = TxtGithubCom /\ p.owner # <<>> /\ p.sep2 = TxtSlash /\ p.repo # <<>>
  /\ \/ p.scheme = TxtHttps /\ p.sep1 = TxtSlash
     \/ /\ p.scheme = TxtGitAt /\ p.www = <<>> /\ p.sep1 = TxtColon
        /\ p.suffix = TxtDotGit

\* Empty text, a host that is not github.com, or no repo segment.
UrlMalformed(p) ==
  \/ UrlText(p) = <<>>
  \/ p.host # TxtGithubCom
  \/ p.repo = <<>> /\ p.suffix # TxtDotGit

UrlAsClaimed(p, r) ==
  /\ UrlValidShape(p) => r = MatchOk(p.owner, p.repo)
  /\ UrlMalformed(p) => ~r.ok

\* C8: every valid GitHub URL shape (https with optional www., trailing .git
\* or trailing slash, and the SSH form) parses to its (owner, repo), and every
\* malformed input (empty, no repo segment, non-GitHub host) gives a failure.
C8_UrlParserCorrect ==
  /\ urlStage = "env" => UrlAsClaimed(urlParts, urlEnvResult)
  /\ urlStage = "cfg" => UrlAsClaimed(urlParts, urlCfgResult)
  /\ urlStage = "none" => ~urlEnvResult.ok /\ ~urlCfgResult.ok

\* C9: parsing the KEY=VALUE serialisation of a parsed variable set gives the
\* same key/value mapping again.
C9_EnvParseIdempotent ==
  envStage = "reparsed" => AsMap(envReparsed) = AsMap(envVars)

\* The ways of taking off only the quotes that wrap a value: none, the
\* leading one, the trailing one, or both.
WrapStrips(v) ==
  LET noLead == IF v # <<>> /\ IsQuote(Head(v)) THEN Tail(v) ELSE v
      noTrail(w) == IF w # <<>> /\ IsQuote(w[Len(w)]) THEN Take(w, Len(w) - 1) ELSE w
  IN  {v, noLead, noTrail(v), noTrail(noLead)}

\* The lines of a text that the claimed parse keeps: trimmed, not blank, not
\* starting with '#', with at least one character before the first '='.
KeptLines(content) ==
  LET lines == SplitLines(content)
  IN  {i \in 1..Len(lines) :
         LET l == Trim(lines[i])
         IN  l # <<>> /\ Head(l) # "#" /\ IndexOf(l, "=") >= 2}

\* C10: blank lines, '#' lines and lines without '=' are skipped; every other
\* line is split at its first '=', key and value are trimmed, and only the
\* quotes wrapping the value are taken off (quotes inside the value stay).
C10_EnvParseLineOriented ==
  envStage = "parsed" =>
    LET lines == SplitLines(envContent)
        keyOf(i) == Trim(Take(Trim(lines[i]), IndexOf(Trim(lines[i]), "=") - 1))
        rawOf(i) == Trim(Drop(Trim(lines[i]), IndexOf(Trim(lines[i]), "=")))
        kept == KeptLines(envContent)
    IN  /\ {e[1] : e \in AsMap(envVars)} = {keyOf(i) : i \in kept}
        /\ \A e \in AsMap(envVars) :
             \E i \in kept : keyOf(i) = e[1] /\ e[2] \in WrapStrips(rawOf(i))

\* Whether trail is a walk along the ring, one step at a time.
RingWalk(trail) ==
  \A i \in 1..(Len(trail) - 1) :
    /\ trail[i + 1] # trail[i]
    /\ StatusIndexOf(trail[i + 1]) = (StatusIndexOf(trail[i]) + 1) % 3

\* C5: advances made one after the other move a task's persisted status one
\* step along the ring 'à faire' -> 'en cours' -> 'fait' -> 'à faire', and
\* three of them from 'à faire' bring it back to 'à faire'.
C5_TaskStatusRing ==
  \A id \in DOMAIN taskTrail :
    /\ RingWalk(taskTrail[id])
    /\ Len(taskTrail[id]) = 4 /\ taskTrail[id][1] = "à faire"
         => taskTrail[id][4] = "à faire"

\* A task that started at 'à faire' and was advanced three times in a row.
C5_Witness ==
  \E id \in DOMAIN taskTrail :
    /\ Len(taskTrail[id]) = 4
    /\ taskTrail[id][1] = "à faire"
    /\ \E r \in tasks : r.id = id /\ r.status = taskTrail[id][4]

\* The deleteVersion calls in flight and the one that ended last.
VersionDelCalls ==
  {versionDels[i] : i \in 1..Len(versionDels)}
    \cup (IF versionDelLast = NoCall THEN {} ELSE {versionDelLast})

\* C3: deleteVersion asks for the blob delete first; the row delete is issued
\* only once the blob delete has succeeded, and when the blob delete fails no
\* row delete is issued, the row stays and the error is shown.
C3_BlobDeleteBeforeRowDelete ==
  \A call \in VersionDelCalls :
    /\ call.rowDelete # "none" => call.blob = "ok"
    /\ call.blob = "pending" => call.pc = "remove"
    /\ call.blob = "failed" =>
         /\ call.pc = "ended"
         /\ call.rowDelete = "none"
         /\ call.shown = Toast("error", "Erreur lors de la suppression")

\* A deleteVersion whose blob delete failed has ended, the row still stored.
C3_Witness ==
  /\ versionDelLast # NoCall
  /\ versionDelLast.blob = "failed"
  /\ versionDelLast.version \in versions
  /\ toast.kind = "error"

-----------------------------------------------------------------------------
(* Claim C1                                                                 *)

\* What a manifest declares: its dependencies and its devDependencies.
Declared(M) ==
  {[name |-> n, version |-> ManifestVersion, type |-> "production"] : n \in M.prod} \cup
  {[name |-> n, version |-> ManifestVersion, type |-> "development"] : n \in M.dev}

DepContent(rows) ==
  {[name |-> r.name, version |-> r.version, type |-> r.type] : r \in rows}

\* The last sync fetched a manifest, no backend call of it failed, and nothing
\* else wrote to the table meanwhile.
SyncedWithManifest ==
  /\ depSyncLast.pc = "ended"
  /\ depSyncLast.manifest # NoManifest
  /\ depSyncLast.failedAt \notin {"delete", "insert"}
  /\ depSyncLast.alone

\* C1: after syncWithGitHub syncs project P with a fetched manifest M, the
\* dependency rows of P are exactly the dependencies and devDependencies M
\* declares, none of them a row from before the sync, also when M declares
\* no dependency.
C1_SyncReplacesAll ==
  SyncedWithManifest =>
    /\ depSyncLast.rowsAfter \cap depSyncLast.rowsBefore = {}
    /\ DepContent(depSyncLast.rowsAfter) = Declared(depSyncLast.manifest)
    /\ Cardinality(depSyncLast.rowsAfter) = Cardinality(Declared(depSyncLast.manifest))

-----------------------------------------------------------------------------
(* Claims C6 and C7                                                         *)

\* The row of the last check's result made of dependency d.
CheckedRow(d) == CHOOSE r \in depCheckLast.result : r.id = d.id

Annotated(r) == r.latestVersion # Unset /\ r.hasUpdate # "unset"

\* C6: in a batch where the registry lookup of one package fails, every entry
\* whose lookup gave a latest version still receives latestVersion and
\* hasUpdate, and the failing entry is returned unchanged.
C6_CheckIsolatesFailures ==
  depCheckLast.pc = "ended" =>
    \A d \in depCheckLast.deps :
      /\ \E r \in depCheckLast.result : r.id = d.id
      /\ depCheckLast.outcomes[d.id].kind = "failed" => CheckedRow(d) = d
      /\ depCheckLast.outcomes[d.id].kind = "latest" =>
           /\ Annotated(CheckedRow(d))
           /\ CheckedRow(d).latestVersion = depCheckLast.outcomes[d.id].latest

\* A check has ended in which one lookup failed and another entry, not
\* annotated before, was annotated.
C6_Witness ==
  /\ depCheckLast.pc = "ended"
  /\ \E d, e \in depCheckLast.deps :
       /\ depCheckLast.outcomes[d.id].kind = "failed"
       /\ depCheckLast.outcomes[e.id].kind = "latest"
       /\ ~Annotated(e)
       /\ Annotated(CheckedRow(e))

\* The stored version with its leading ^ or ~ taken off.
WithoutLeadingOperator(v) ==
  IF v # <<>> /\ Head(v) \in {"^", "~"} THEN Tail(v) ELSE v

\* C7: the stored version is compared without its leading ^ or ~, and an
\* entry whose stored version is no valid version gets no annotation:
\* neither latestVersion nor hasUpdate is set on it.
C7_InvalidVersionNotAnnotated ==
  depCheckLast.pc = "ended" =>
    \A d \in depCheckLast.deps :
      depCheckLast.outcomes[d.id].kind = "latest" =>
        LET stored == WithoutLeadingOperator(d.version)
            latest == depCheckLast.outcomes[d.id].latest
        IN  IF SemverValid(stored) = Null
            THEN CheckedRow(d) = d
            ELSE CheckedRow(d).hasUpdate =
                   IF SemverGt(latest, SemverValid(stored)) THEN "true" ELSE "false"

-----------------------------------------------------------------------------
(* Claim C2                                                                 *)

\* The environments a sync has parsed: those with at least one variable.
ParsedEnvironments(parsed) ==
  {[name |-> EnvNameOrder[i], variables |-> parsed[EnvNameOrder[i]]] :
     i \in {j \in 1..Len(EnvNameOrder) : parsed[EnvNameOrder[j]] # {}}}

EnvContent(rows) == {[name |-> r.name, variables |-> r.variables] : r \in rows}

\* C2: a successful sync of project P deletes every environment row that P
\* had before it and inserts the freshly parsed set, so that P's rows are
\* exactly the set parsed by the last sync.
C2_EnvSyncReplacesAll ==
  envSyncLast.pc = "ended" /\ envSyncLast.failedAt = "none" =>
    /\ envSyncLast.rowsAfter \cap envSyncLast.rowsBefore = {}
    /\ EnvContent(envSyncLast.rowsAfter) = ParsedEnvironments(envSyncLast.parsed)
    /\ Cardinality(envSyncLast.rowsAfter) =
         Cardinality(ParsedEnvironments(envSyncLast.parsed))

-----------------------------------------------------------------------------
(* Claim C4                                                                 *)

\* No child row names project p.
NoRowsOf(p) ==
  /\ RowsOf(tasks, p) = {}
  /\ RowsOf(notes, p) = {}
  /\ RowsOf(versions, p) = {}
  /\ RowsOf(documentation, p) = {}
  /\ RowsOf(environments, p) = {}
  /\ RowsOf(dependencies, p) = {}

\* C4: after deleteProject succeeds for project P, the tasks, notes,
\* versions, documentation, environments and dependencies of P are empty and
\* every blob stored for P's versions is gone from the bucket.
C4_DeleteProjectCascades ==
  projectDelLast.pc = "ended" /\ projectDelLast.deleted =>
    /\ NoRowsOf(projectDelLast.project)
    /\ projectDelLast.blobs \cap bucket = {}

-----------------------------------------------------------------------------
(* Claim C11                                                                *)

\* The fixed ordered list of candidate branches.
CandidateBranches == <<"main", "master", "development", "dev">>

\* The first candidate branch on which the listing exists.
FirstListedCandidate(world) ==
  CandidateBranches[CHOOSE i \in 1..Len(CandidateBranches) :
                      /\ CandidateBranches[i] \in world.okBranches
                      /\ \A j \in 1..i - 1 : CandidateBranches[j] \notin world.okBranches]

\* fetchGitHubContent was called with a usable token and the repository call
\* failed.
MetadataCallFailed ==
  /\ libCall.pc = "ended"
  /\ libCall.fn = "fetchGitHubContent"
  /\ libCall.token = TokenPersonal
  /\ libCall.world.repo.status # 200

\* C11: when the repository-metadata call fails, fetchGitHubContent does not
\* fail but tries the candidate branches main, master, development, dev in
\* order until one gives the listing, and fails only if every one fails.
C11_BranchFallback ==
  MetadataCallFailed =>
    LET listed == {i \in 1..Len(CandidateBranches) :
                     CandidateBranches[i] \in libCall.world.okBranches}
        sent == libCall.result.requests
    IN  /\ libCall.result.ok <=> listed # {}
        /\ libCall.result.ok =>
             /\ sent[Len(sent)].to = "contents"
             /\ sent[Len(sent)].ref = FirstListedCandidate(libCall.world)

-----------------------------------------------------------------------------
(* Claim C12                                                                *)

\* The kinds of failed response the claim tells apart.
ResponseKind(r) ==
  CASE r.status = 404 -> "not found"
    [] r.status = 401 -> "token invalid"
    [] r.status = 403 /\ r.remaining0 -> "rate limit exceeded"
    [] r.status = 403 /\ ~r.remaining0 -> "access denied"
    [] OTHER -> "other"

\* The source host answering every request of the call with r.
AnsweringAll(world, r) ==
  [world EXCEPT !.repo = r, !.failure = r, !.okBranches = {}]

\* The message the caller of fetchGitHubContent gets from such a host.
ContentMessage(variant, token, world) ==
  IF variant = "github.ts"
  THEN fetchGitHubContent(token, world).error.message
  ELSE fetchGitHubContentPart008(token, world).error.message

\* fetchGitHubContent was called with a usable token and every request of it
\* got the same failed response.
AllRequestsFailedAlike ==
  /\ libCall.pc = "ended"
  /\ libCall.fn = "fetchGitHubContent"
  /\ libCall.token = TokenPersonal
  /\ libCall.world.repo \in ErrorResponses
  /\ libCall.world = AnsweringAll(libCall.world, libCall.world.repo)

\* C12: the message reaching the caller of fetchGitHubContent for a failed
\* response differs from the message it gets for a failed response of any
\* other kind (404, 401, 403 with no rate limit left, 403 otherwise, any
\* other status), whatever the body of the response.
C12_ErrorKindsDistinct ==
  AllRequestsFailedAlike =>
    /\ ~libCall.result.ok
    /\ \A r \in ErrorResponses :
         ResponseKind(r) # ResponseKind(libCall.world.repo) =>
           ContentMessage(libCall.variant, libCall.token, AnsweringAll(libCall.world, r))
             # libCall.result.error.message

-----------------------------------------------------------------------------
(* Claim C13                                                                *)

\* What fetchGitHubContent gives with a token, against the same source host.
ContentResult(variant, token, world) ==
  IF variant = "github.ts"
  THEN fetchGitHubContent(token, world)
  ELSE fetchGitHubContentPart008(token, world)

\* C13: with no token configured fetchGitHubContent still sends its requests,
\* without an Authorization header, and gives the filtered listing it gives
\* with a token.
C13_NoTokenTolerated ==
  libCall.pc = "ended" /\ libCall.fn = "fetchGitHubContent" /\ libCall.token = TokenUnset =>
    LET withToken == ContentResult(libCall.variant, TokenPersonal, libCall.world)
        sent == libCall.result.requests
    IN  /\ sent # <<>>
        /\ \A i \in 1..Len(sent) : ~sent[i].auth
        /\ libCall.result.ok = withToken.ok
        /\ libCall.result.files = withToken.files

-----------------------------------------------------------------------------
(* Claims C14 and C15                                                       *)

FileResult(variant, token, world) ==
  IF variant = "github.ts"
  THEN fetchFileContent(token, world)
  ELSE fetchFileContentPart008(token, world)

\* The source host serving the file nowhere and answering every request with r.
ServingNothing(world, r) == [world EXCEPT !.okForms = {}, !.okBranches = {}, !.failure = r]

\* fetchFileContent was called with a usable token and the file it got is blank.
BlankFileFetched ==
  /\ libCall.pc = "ended"
  /\ libCall.fn = "fetchFileContent"
  /\ libCall.token = TokenPersonal
  /\ libCall.world.content = "blank"
  /\ FileAt(libCall.world, 1, UrlBranch).status = 200

\* C14: fetchFileContent rejects a blank file as an error, and the error the
\* caller gets for it differs from the error it gets for any other failure
\* of the fetch.
C14_EmptyFileDistinct ==
  BlankFileFetched =>
    /\ ~libCall.result.ok
    /\ \A r \in FailureResponses :
         FileResult(libCall.variant, libCall.token, ServingNothing(libCall.world, r)).error
           # libCall.result.error

\* fetchFileContent was called with a usable token and its first attempt was
\* answered 404.
FirstAttemptNotFound ==
  /\ libCall.pc = "ended"
  /\ libCall.fn = "fetchFileContent"
  /\ libCall.token = TokenPersonal
  /\ FileAt(libCall.world, 1, UrlBranch).status = 404

\* C15: when the first attempt is answered 404, fetchFileContent tries the
\* further branch names, and reports that the file is not found only after
\* every candidate branch has been tried without success.
C15_FileBranchFallback ==
  FirstAttemptNotFound =>
    LET sent == libCall.result.requests
        tried == {sent[i].ref : i \in 1..Len(sent)}
    IN  /\ 1 \in libCall.world.okForms /\ libCall.world.okBranches # {}
             /\ libCall.world.content = "text" => libCall.result.ok
        /\ ~libCall.result.ok /\ libCall.world.content = "text" =>
             \A i \in 1..Len(fileBranchesToTry) : fileBranchesToTry[i] \in tried

-----------------------------------------------------------------------------
(* Claim C16                                                                *)

\* What the environment sync says when it fails for another reason than an
\* unreadable package.json.
OtherEnvSyncErrors ==
  {EnvPreflightToast(f) : f \in PreflightFailures}
    \cup {Toast("error", "Impossible de récupérer le contenu des fichiers de configuration."),
          Toast("error", "Erreur lors de la synchronisation"),
          Toast("error", "Erreur lors du chargement des environnements")}

\* A sync of the environments ends in this step, and the package.json it
\* fetched was not valid JSON.
EnvSyncEndsOnUnreadableManifest ==
  /\ envSyncLast' # envSyncLast
  /\ envSyncLast'.pc = "ended"
  /\ envSyncLast'.failedAt # "preflight"
  /\ envSyncLast'.packageJson = "unparsable"

\* C16: when the package.json that a sync fetched is not valid JSON, the sync
\* tells the user so with an error of its own, and it neither deletes nor
\* inserts a row.
C16_UnreadableManifest ==
  [][EnvSyncEndsOnUnreadableManifest =>
       /\ toast'.kind = "error"
       /\ toast' \notin OtherEnvSyncErrors
       /\ envSyncLast'.rowsAfter = envSyncLast'.rowsBefore]_vars

-----------------------------------------------------------------------------
(* Claim C17                                                                *)

\* The variables that may be left out.
OptionalEnvKeys == {"VITE_GITHUB_TOKEN", "VITE_OPENAI_API_KEY"}

\* The variables of env that are missing or invalid: a required one that is
\* unset, empty or malformed, an optional one that is set and empty.
MissingOrInvalid(env) ==
  {EnvSchemaKeys[i] : i \in 1..Len(EnvSchemaKeys)} \ 
    {key \in {EnvSchemaKeys[i] : i \in 1..Len(EnvSchemaKeys)} :
       \/ PassesEnvSchema(key, env[key])
       \/ key \in OptionalEnvKeys /\ env[key] = Unset}

\* C17: validateEnvConfig checks the backend URL, the backend anonymous key,
\* the source-hosting token and the AI key, accepts a configuration without
\* token or AI key, and when it fails its one error names every missing or
\* invalid variable and no other.
C17_EnvConfigAggregate ==
  libCall.pc = "ended" /\ libCall.fn = "validateEnvConfig" =>
    /\ libCall.result.ok <=> MissingOrInvalid(libCall.env) = {}
    /\ ~libCall.result.ok =>
         {libCall.result.named[i] : i \in 1..Len(libCall.result.named)}
           = MissingOrInvalid(libCall.env)

-----------------------------------------------------------------------------
(* Claim C18                                                                *)

\* generateDocumentation was called with no AI credential configured.
GeneratedWithoutCredential ==
  /\ libCall.pc = "ended"
  /\ libCall.fn = "generateDocumentation"
  /\ Falsy(libCall.key)

\* C18: with no AI credential configured, generateDocumentation returns the
\* static template, throws nothing and sends no completion request.
C18_UnavailableMode ==
  GeneratedWithoutCredential =>
    /\ ~libCall.result.threw
    /\ libCall.result.kind = "template"
    /\ libCall.result.calls = 0

-----------------------------------------------------------------------------
(* Claim C19                                                                *)

\* C19: data that fails a form's schema is never sent to the backend: every
\* environment row that the client has written passes envSchema, whether the
\* form or the sync wrote it.
C19_WritesPassSchema ==
  \A row \in environments : envSchemaAccepts([name |-> row.name, variables |-> row.variables])

-----------------------------------------------------------------------------
(* Claim C20                                                                *)

\* C20: every insert that the client sends carries the id of the signed-in
\* user as its user_id, and so does every row that it has inserted.
C20_OwnerStamped ==
  /\ insertSent.pc = "sent" => insertSent.user_id = CurrentUser
  /\ \A row \in tasks \cup notes \cup documentation : row.user_id = CurrentUser
  /\ \A row \in environments : row.user_id = CurrentUser
  /\ \A row \in dependencies : row.user_id = CurrentUser
  /\ \A row \in versions : row.user_id = CurrentUser

-----------------------------------------------------------------------------
(* Claim C21                                                                *)

\* The positions in the requests of the ended call that ask for the listing.
ContentsRequests ==
  {i \in 1..Len(libCall.result.requests) : libCall.result.requests[i].to = "contents"}

\* C21: nothing is retried: fetchGitHubContent asks for the listing at most
\* once, and when its repository call has failed it asks for nothing more.
C21_NoAutomaticRetry ==
  libCall.pc = "ended" /\ libCall.fn = "fetchGitHubContent" =>
    /\ Cardinality(ContentsRequests) <= 1
    /\ Len(libCall.result.requests) >= 1 /\ libCall.world.repo.status # 200 =>
         Len(libCall.result.requests) = 1

-----------------------------------------------------------------------------
(* Claim C22                                                                *)

\* The entries of the lookup table whose pattern is a case-insensitive
\* substring of the name.
PatternsIn(dep) ==
  {j \in 1..Len(techMapping) : Includes(ToLower(dep), ToLower(techMapping[j][1]))}

\* For each name, the first entry among its patterns, 0 when it has none.
FirstPatternOf ==
  [dep \in StackDepNames |->
     LET hits == PatternsIn(dep)
     IN  IF hits = {} THEN 0 ELSE CHOOSE j \in hits : \A k \in hits : j <= k]

\* The labels of the names at positions 1..n.
LabelsUpTo(names, n) ==
  {techMapping[FirstPatternOf[names[i]]][2] :
     i \in {k \in 1..n : FirstPatternOf[names[k]] # 0}}

\* C22: the stack holds, for every declared name, the label of the first
\* lookup-table pattern that is a case-insensitive substring of the name and
\* nothing else, each label once, in the order in which the names first give
\* them.
C22_StackDetection ==
  libCall.pc = "ended" /\ libCall.fn = "detectStack" =>
    LET deps == libCall.dependencies
        stack == libCall.result
    IN  /\ {stack[i] : i \in 1..Len(stack)} = LabelsUpTo(deps, Len(deps))
        /\ \A i, k \in 1..Len(stack) : i # k => stack[i] # stack[k]
        /\ \A i \in 1..Len(stack) :
             \E n \in 1..Len(deps) :
               /\ Cardinality(LabelsUpTo(deps, n)) = i
               /\ Cardinality(LabelsUpTo(deps, n - 1)) = i - 1
               /\ stack[i] \in LabelsUpTo(deps, n)
               /\ stack[i] \notin LabelsUpTo(deps, n - 1)

\* A name that two patterns match has given the label of the first one, and a
\* label given twice is listed once.
C22_Witness ==
  /\ libCall.pc = "ended"
  /\ libCall.fn = "detectStack"
  /\ libCall.dependencies = <<TxtVitest, TxtReactNative, TxtReactDom>>
  /\ libCall.result = <<"Vite", "React">>

-----------------------------------------------------------------------------
(* Claim C23                                                                *)

\* The fields that checkForUpdates derives.
DerivedFields == {"latestVersion", "hasUpdate"}

\* C23: no insert and no update of a dependency carries latestVersion or
\* hasUpdate, whatever checkForUpdates has put in the displayed list.
C23_DerivedNeverPersisted ==
  insertSent.pc \in {"sent", "updateSent"} /\ insertSent.table = "dependencies" =>
    insertSent.fields \cap DerivedFields = {}

\* An update was sent for a dependency that is displayed with the annotation
\* of checkForUpdates.
C23_Witness ==
  /\ insertSent.pc = "updateSent"
  /\ \E dep \in depView :
       /\ dep.id = insertSent.id
       /\ dep.latestVersion # Unset
       /\ dep.hasUpdate = "true"

-----------------------------------------------------------------------------
(* Claim C24                                                                *)

\* The in-flight flags follow the calls: a flag is up exactly while its call is
\* in flight, so it is cleared however the call ends.
FlagsFollowCalls ==
  /\ syncing <=> depSync # NoCall
  /\ checkingUpdates <=> depCheck # NoCall
  /\ uploading <=> versionUpload # NoCall

\* C24: an action in flight keeps its control disabled: no second instance of
\* the same action (here, the status button of the same task) starts before the
\* first has resolved, and the flags are cleared when their calls end.
C24_OneInstanceInFlight ==
  /\ \A i, k \in 1..Len(taskCalls) :
       i # k => taskCalls[i].task # taskCalls[k].task
  /\ FlagsFollowCalls

-----------------------------------------------------------------------------
(* Claim C25                                                                *)

\* C25: every click on a status button whose update goes through moves the
\* persisted status of its task one step along the ring, also when the click
\* came before the update and the re-fetch of an earlier click had completed.
C25_EachClickOneStep ==
  [][\A i \in 1..Len(taskCalls) :
       /\ Len(taskCalls') = Len(taskCalls)
       /\ taskCalls[i].pc = "update"
       /\ taskCalls'[i].pc = "fetch"
       => \A r \in tasks :
            r.id = taskCalls[i].task =>
              \E r2 \in tasks' : r2.id = r.id /\ r2.status = NextStatus(r.status)]_vars

-----------------------------------------------------------------------------
(* Claim C26                                                                *)

\* C26: once the version operations have ended, whichever of their calls
\* failed, every row of versions references a blob of the bucket and every
\* blob of the bucket is referenced by a row of versions.
C26_NoOrphans ==
  versionUpload = NoCall /\ versionDels = <<>> =>
    /\ \A r \in versions : r.file_path \in bucket
    /\ \A b \in bucket : \E r \in versions : r.file_path = b

-----------------------------------------------------------------------------
(* Claims C27 and C28                                                       *)

\* The rows a sync left are the rows the manifest declares.
RowsAreManifest(call) ==
  /\ call.manifest # NoManifest
  /\ DepContent(call.rowsAfter) = Declared(call.manifest)

\* C27: when a syncWithGitHub that was the only writer of the table has ended,
\* at whichever step, the project's rows are the rows from before the attempt
\* or the rows the manifest declares.
C27_SyncAllOrNothing ==
  depSyncLast.pc = "ended" /\ depSyncLast.alone =>
    \/ depSyncLast.rowsAfter = depSyncLast.rowsBefore
    \/ RowsAreManifest(depSyncLast)

\* The steps at which a sync stops before its delete call.
BeforeDelete == {"preflight", BadJson, "empty"}

\* C28: a step that ends a syncWithGitHub before its delete call (no user, no
\* project, no usable URL, no content, no package.json, an unparsable or an
\* empty manifest) deletes, inserts and changes no row of dependencies.
C28_EarlyFailureChangesNothing ==
  [][/\ depSyncLast' # depSyncLast
     /\ depSyncLast'.pc = "ended"
     /\ depSyncLast'.failedAt \in BeforeDelete
     => dependencies' = dependencies]_vars

\* A sync of a project that has rows stopped at an unparsable manifest, and the
\* rows are all there.
C28_Witness ==
  /\ depSyncLast.pc = "ended"
  /\ depSyncLast.failedAt = BadJson
  /\ depSyncLast.rowsBefore # {}
  /\ RowsOf(dependencies, depSyncLast.project) = depSyncLast.rowsBefore

-----------------------------------------------------------------------------
(* Claim C30                                                                *)

\* The ids of the rows of a displayed list.
IdsOf(view) == {d.id : d \in view}

\* C30: when checkForUpdates completes, the displayed list has the rows that
\* the most recent fetch returned, which are the rows displayed just before,
\* also when a create and its re-fetch completed while the check was in
\* flight: the check drops no row and brings none back.
C30_CheckKeepsFetchedRows ==
  [][depCheck.pc = "lookup" /\ depCheck'.pc = "none" =>
       IdsOf(depView') = IdsOf(depView)]_vars

-----------------------------------------------------------------------------
(* Claim C29                                                                *)

\* What a detection of url can put in the stack field.
ResultsFor(url) == {StackAfter(<<>>, url, o) : o \in {"detected", "noPackageJson"}}

\* C29: whatever order the detections in flight complete in, every value the
\* stack field is given is a result detected for the URL the field github_url
\* holds: a detection started for an earlier URL overwrites nothing.
C29_LatestUrlWins ==
  [][stackForm'.stack # stackForm.stack /\ stackForm'.github_url # "" =>
       stackForm'.stack \in ResultsFor(stackForm'.github_url)]_vars

=============================================================================
